---- MODULE Spec2Model ----
(***************************************************************************)
(* Natural-language-to-SQL pipeline of the analytics dashboard:            *)
(*   agent.py         run_agent, generate_sql_with_llm,                    *)
(*                    retry_sql_generation, is_safe_sql                    *)
(*   data_manager.py  DataManager.upload_dataset, set_current_dataset,     *)
(*                    get_dataset_info, query_data,                        *)
(*                    _quote_column_names_smart, _enhance_error            *)
(* Text is modelled as a sequence of one-character strings, so that the    *)
(* case conversions, substring tests and regular expressions of the code   *)
(* are computed character by character.                                    *)
(***************************************************************************)
EXTENDS Integers, Sequences, FiniteSets, TLC

VARIABLES
    \* ---- harness of the pure functions (their argument and result) ----
    argText,      \* the text argument: a query, or a raw model output
    argCols,      \* the column list argument (a sequence of texts)
    called,       \* "" before the call, then the name of the function applied
    retBool,      \* result of is_safe_sql
    retText,      \* result of a text-valued function
    retText2,     \* result of applying the function to its own result
    retList,      \* result of a list-valued function
    \* ---- the Tabular Store (data_manager.DataManager) ----
    datasets,        \* the registry: dataset name -> its column list
    current_dataset, \* the current-dataset pointer, or NoName
    \* ---- one invocation of agent.run_agent ----
    pc,           \* the statement run_agent is at; "off" when none is running
    client,       \* LLMModel.client: "groq", or "none" when groq is not installed
    message,      \* the message argument: the user's question
    dataset_name, \* the dataset_name argument, or NoName
    info,         \* info["name"] of get_dataset_info, or NoName before it / on error
    agent_df,     \* the local variable df of run_agent (line 110), NoTable before it
    query,        \* the local variable query
    results,      \* the local variable results (a Result Set)
    error_msg,    \* the local variable error_msg
    llmLog,       \* the calls of model.generate_response so far
    execLog,      \* the calls of data_manager.query_data so far
    response,     \* the returned dict, once pc = "done"
    \* ---- calls of the DataManager methods by the sessions of the app ----
    calls,        \* per caller: the position and the locals of its query_data call
    conns,        \* the engine connections created so far (duckdb.connect())
    nCalls,       \* the number of query_data calls started
    lastOp,       \* the last upload_dataset / set_current_dataset /
                  \* get_dataset_info call: its arguments and what it returned
    \* ---- one invocation of dashboard_agent.run_agent ----
    dash          \* its position, its arguments and its locals

fnVars == <<argText, argCols, called, retBool, retText, retText2, retList>>

storeVars == <<datasets, current_dataset>>

agentVars == <<pc, client, message, dataset_name, info, agent_df, query, results, error_msg,
               llmLog, execLog, response>>

callVars == <<calls, conns, nCalls, lastOp>>

vars == <<fnVars, storeVars, agentVars, callVars, dash>>

(***************************************************************************)
(* Bounds of the model.                                                    *)
(***************************************************************************)
MaxFrags == 3        \* fragments concatenated into an argument of is_safe_sql,
                     \* generate_sql_with_llm or extract_columns_from_query
MaxQueryFrags == 3   \* fragments concatenated into a query given to the quoter
MaxRows == 2         \* rows of a Result Set the engine returns

(***************************************************************************)
(* Text helpers: Python str methods.                                       *)
(***************************************************************************)
LowerLetters == <<"a", "b", "c", "d", "e", "f", "g", "h", "i", "j", "k", "l", "m",
                  "n", "o", "p", "q", "r", "s", "t", "u", "v", "w", "x", "y", "z">>
UpperLetters == <<"A", "B", "C", "D", "E", "F", "G", "H", "I", "J", "K", "L", "M",
                  "N", "O", "P", "Q", "R", "S", "T", "U", "V", "W", "X", "Y", "Z">>
Digits == {"0", "1", "2", "3", "4", "5", "6", "7", "8", "9"}
Whitespace == {" ", "\n", "\t"}

\* the backquote character (a string cannot hold it as written)
Backtick == "<backquote>"

IsLower(c) == \E i \in 1..26 : LowerLetters[i] = c
IsUpper(c) == \E i \in 1..26 : UpperLetters[i] = c

\* str.lower() on one ASCII character
LowerChar(c) ==
    IF IsUpper(c) THEN LowerLetters[CHOOSE i \in 1..26 : UpperLetters[i] = c] ELSE c

\* str.upper()
Upper(s) ==
    [i \in 1..Len(s) |->
        IF IsLower(s[i]) THEN UpperLetters[CHOOSE k \in 1..26 : LowerLetters[k] = s[i]]
        ELSE s[i]]

\* t in s
Contains(s, t) ==
    \E i \in 0..(Len(s) - Len(t)) : SubSeq(s, i + 1, i + Len(t)) = t

\* s.startswith(t)
StartsWith(s, t) == Len(s) >= Len(t) /\ SubSeq(s, 1, Len(t)) = t

\* the concatenation of a sequence of texts
RECURSIVE Flatten(_)
Flatten(ss) == IF ss = <<>> THEN <<>> ELSE Head(ss) \o Flatten(Tail(ss))

\* all sequences over S of length at most n
SeqsUpTo(S, n) == UNION {[1..k -> S] : k \in 0..n}

(***************************************************************************)
(* agent.py: is_safe_sql                                                   *)
(***************************************************************************)
banned == <<
    <<"D", "R", "O", "P">>,
    <<"D", "E", "L", "E", "T", "E">>,
    <<"I", "N", "S", "E", "R", "T">>,
    <<"U", "P", "D", "A", "T", "E">>,
    <<"C", "R", "E", "A", "T", "E">>,
    <<"A", "L", "T", "E", "R">>,
    <<"T", "R", "U", "N", "C", "A", "T", "E">>,
    <<"E", "X", "E", "C">>,
    <<"E", "X", "E", "C", "U", "T", "E">>,
    <<";", "-", "-">>,
    <<"/", "*">>,
    <<"*", "/">> >>

\* mutant: the query is searched as written, without upper-casing it
is_safe_sql_NoUpper(q) ==
    ~ \E b \in 1..Len(banned) : Contains(q, banned[b])

is_safe_sql(q) ==
    LET up == Upper(q)
    IN  ~ \E b \in 1..Len(banned) : Contains(up, banned[b])

(***************************************************************************)
(* agent.py: the cleanup of the model output and the two SQL generators.   *)
(* A response of LLMModel.generate_response is a text, or NoneVal when the *)
(* service answered with no content (resp.choices[0].message.content is    *)
(* None).                                                                  *)
(***************************************************************************)
NoneVal == <<"<None>">>

Fallback == <<"S", "E", "L", "E", "C", "T", " ", "*", " ", "F", "R", "O", "M", " ",
              "c", "u", "r", "r", "e", "n", "t", "_", "d", "a", "t", "a", " ",
              "L", "I", "M", "I", "T", " ", "2", "0">>

Fence == <<Backtick, Backtick, Backtick>>
SelectKw == <<"S", "E", "L", "E", "C", "T">>

EndsWith(s, t) == Len(s) >= Len(t) /\ SubSeq(s, Len(s) - Len(t) + 1, Len(s)) = t

RECURSIVE LStrip(_)
LStrip(s) == IF s # <<>> /\ Head(s) \in Whitespace THEN LStrip(Tail(s)) ELSE s

RECURSIVE RStrip(_)
RStrip(s) ==
    IF s # <<>> /\ s[Len(s)] \in Whitespace THEN RStrip(SubSeq(s, 1, Len(s) - 1)) ELSE s

\* str.strip()
Strip(s) == RStrip(LStrip(s))

\* re.sub(r'^```sql\s*', '', sql, flags=re.I)
SubLeadingSqlFence(s) ==
    IF Len(s) >= 6 /\ SubSeq(s, 1, 3) = Fence /\ Upper(SubSeq(s, 4, 6)) = <<"S", "Q", "L">>
    THEN LStrip(SubSeq(s, 7, Len(s)))
    ELSE s

\* re.sub(r'^```\s*', '', sql, flags=re.I)
SubLeadingFence(s) ==
    IF StartsWith(s, Fence) THEN LStrip(SubSeq(s, 4, Len(s))) ELSE s

\* re.sub(r'\s*```$', '', sql): $ matches at the end of the text, and also just
\* before a newline that ends it; the match starts at the whitespace run that
\* precedes the last fence.
SubTrailingFence(s) ==
    IF EndsWith(s, Fence)
    THEN RStrip(SubSeq(s, 1, Len(s) - 3))
    ELSE IF EndsWith(s, Fence \o <<"\n">>)
         THEN RStrip(SubSeq(s, 1, Len(s) - 4)) \o <<"\n">>
         ELSE s

\* lines 237-241 (and 288-292): strip, the three substitutions, strip
CleanFences(raw) ==
    Strip(SubTrailingFence(SubLeadingFence(SubLeadingSqlFence(Strip(raw)))))

\* mutant: the cleaned output is returned without the SELECT validation
generate_sql_with_llm_NoValidate(raw) ==
    IF raw = NoneVal THEN Fallback ELSE CleanFences(raw)

\* the try block of generate_sql_with_llm, from the model's response to the
\* returned query: raw.strip() raises on None, a cleaned output that does not
\* start with SELECT raises ValueError, and every exception returns the fallback
generate_sql_with_llm(raw) ==
    IF raw = NoneVal
    THEN Fallback
    ELSE LET sql == CleanFences(raw)
         IN  IF ~ StartsWith(Upper(sql), SelectKw) THEN Fallback ELSE sql

\* the try block of retry_sql_generation: the cleaned output is returned as
\* it is; only an exception (raw.strip() on None) returns the fallback
retry_sql_generation(raw) ==
    IF raw = NoneVal THEN Fallback ELSE CleanFences(raw)

(***************************************************************************)
(* data_manager.py: DataManager._quote_column_names_smart                  *)
(***************************************************************************)
DQ == "\""

\* \w of the regular expression: a letter, a digit or the underscore
IsWordChar(c) == IsLower(c) \/ IsUpper(c) \/ c \in Digits \/ c = "_"

\* query.replace('`', '"')
ReplaceBackticks(s) == [i \in 1..Len(s) |-> IF s[i] = Backtick THEN DQ ELSE s[i]]

\* the text at p matches re.escape(col) under re.IGNORECASE
NameAt(s, col, p) ==
    /\ p + Len(col) - 1 <= Len(s)
    /\ \A k \in 1..Len(col) : LowerChar(s[p + k - 1]) = LowerChar(col[k])

\* mutant: the pattern without its two quote lookarounds
BareMatchAt_NoQuoteGuard(s, col, p) ==
    /\ NameAt(s, col, p)
    /\ p > 1 => ~ IsWordChar(s[p - 1])
    /\ p + Len(col) <= Len(s) => ~ IsWordChar(s[p + Len(col)])

\* the pattern (?<!")(?<!\w) col (?!\w)(?!") matches at position p of s
BareMatchAt(s, col, p) ==
    /\ NameAt(s, col, p)
    /\ p > 1 => (s[p - 1] # DQ /\ ~ IsWordChar(s[p - 1]))
    /\ p + Len(col) <= Len(s) =>
          (~ IsWordChar(s[p + Len(col)]) /\ s[p + Len(col)] # DQ)

\* re.sub(pattern, f'"{col}"', quoted, flags=re.IGNORECASE), scanning from p:
\* every non-overlapping match, leftmost first, becomes the delimited name
RECURSIVE ReSubFrom(_, _, _)
ReSubFrom(s, col, p) ==
    IF p > Len(s) THEN <<>>
    ELSE IF BareMatchAt(s, col, p)
         THEN <<DQ>> \o col \o <<DQ>> \o ReSubFrom(s, col, p + Len(col))
         ELSE <<s[p]>> \o ReSubFrom(s, col, p + 1)

\* c inserted behind the names of sorted that are at least as long
RECURSIVE InsertByLen(_, _)
InsertByLen(sorted, c) ==
    IF sorted = <<>> THEN <<c>>
    ELSE IF Len(Head(sorted)) >= Len(c)
         THEN <<Head(sorted)>> \o InsertByLen(Tail(sorted), c)
         ELSE <<c>> \o sorted

\* sorted(columns, key=len, reverse=True): stable, longest first
RECURSIVE SortedByLenDesc(_, _)
SortedByLenDesc(columns, acc) ==
    IF columns = <<>> THEN acc
    ELSE SortedByLenDesc(Tail(columns), InsertByLen(acc, Head(columns)))

\* the for loop over sorted_cols: a column that occurs delimited is skipped
RECURSIVE QuoteLoop(_, _)
QuoteLoop(quoted, sorted_cols) ==
    IF sorted_cols = <<>> THEN quoted
    ELSE LET col == Head(sorted_cols)
         IN  IF Contains(quoted, <<DQ>> \o col \o <<DQ>>)
             THEN QuoteLoop(quoted, Tail(sorted_cols))
             ELSE QuoteLoop(ReSubFrom(quoted, col, 1), Tail(sorted_cols))

quote_column_names_smart(q, columns) ==
    QuoteLoop(ReplaceBackticks(q), SortedByLenDesc(columns, <<>>))

(***************************************************************************)
(* data_manager.py: _enhance_error.                                        *)
(***************************************************************************)
Lower(s) == [i \in 1..Len(s) |-> LowerChar(s[i])]

\* ', '.join(names)
RECURSIVE Join(_)
Join(names) ==
    IF names = <<>> THEN <<>>
    ELSE IF Len(names) = 1 THEN names[1]
    ELSE names[1] \o <<",", " ">> \o Join(Tail(names))

\* names[:n]
Take(names, n) == SubSeq(names, 1, IF Len(names) < n THEN Len(names) ELSE n)

\* the position of the first c at or behind p, 0 when there is none
NextCharPos(s, c, p) ==
    IF \E k \in p..Len(s) : s[k] = c
    THEN CHOOSE k \in p..Len(s) : s[k] = c /\ \A j \in p..(k - 1) : s[j] # c
    ELSE 0

\* d([^d]+)d matches at p: the position of the closing d, 0 when it does not
DelimitedEnd(s, d, p) ==
    IF s[p] = d /\ NextCharPos(s, d, p + 1) > p + 1
    THEN NextCharPos(s, d, p + 1)
    ELSE 0

\* (\w+) matching at p: the position of its last character
RECURSIVE WordEnd(_, _)
WordEnd(s, p) == IF p < Len(s) /\ IsWordChar(s[p + 1]) THEN WordEnd(s, p + 1) ELSE p

\* re.search(r'"([^"]+)"|`([^`]+)`|(\w+)', error), scanning from p: the group of
\* the leftmost match, the alternatives tried in their order; NoneVal without match
RECURSIVE SearchBadCol(_, _)
SearchBadCol(s, p) ==
    IF p > Len(s) THEN NoneVal
    ELSE IF DelimitedEnd(s, DQ, p) > 0
         THEN SubSeq(s, p + 1, DelimitedEnd(s, DQ, p) - 1)
    ELSE IF DelimitedEnd(s, Backtick, p) > 0
         THEN SubSeq(s, p + 1, DelimitedEnd(s, Backtick, p) - 1)
    ELSE IF IsWordChar(s[p]) THEN SubSeq(s, p, WordEnd(s, p))
    ELSE SearchBadCol(s, p + 1)

ColumnWord == <<"c", "o", "l", "u", "m", "n">>
NotFoundWords == <<"n", "o", "t", " ", "f", "o", "u", "n", "d">>

MsgColumn == <<"C", "o", "l", "u", "m", "n", " ", "'">>
MsgDidYouMean == <<"'", " ", "n", "o", "t", " ", "f", "o", "u", "n", "d", ".", " ",
                   "D", "i", "d", " ", "y", "o", "u", " ", "m", "e", "a", "n", ":", " ">>
MsgAvailable == <<"'", " ", "n", "o", "t", " ", "f", "o", "u", "n", "d", ".", " ",
                  "A", "v", "a", "i", "l", "a", "b", "l", "e", " ",
                  "c", "o", "l", "u", "m", "n", "s", ":", " ">>
MsgSyntax == <<"S", "Q", "L", " ", "s", "y", "n", "t", "a", "x", " ", "e", "r", "r", "o", "r",
               ".", " ", "C", "h", "e", "c", "k", " ", "y", "o", "u", "r", " ",
               "q", "u", "e", "r", "y", " ", "s", "y", "n", "t", "a", "x", " ", "a", "n", "d",
               " ", "c", "o", "l", "u", "m", "n", " ", "n", "a", "m", "e", "s", ".">>

\* lines 145-149: the message for the extracted identifier bad_col
ColumnNotFoundMessage(bad_col, columns) ==
    LET similar == SelectSeq(columns, LAMBDA c : Contains(Lower(c), Lower(bad_col)))
    IN  IF similar # <<>>
        THEN MsgColumn \o bad_col \o MsgDidYouMean \o Join(Take(similar, 3)) \o <<"?">>
        ELSE MsgColumn \o bad_col \o MsgAvailable \o Join(Take(columns, 5))

enhance_error(error, columns) ==
    LET error_lower == Lower(error)
    IN  IF /\ Contains(error_lower, ColumnWord)
           /\ Contains(error_lower, NotFoundWords)
           /\ SearchBadCol(error, 1) # NoneVal
        THEN ColumnNotFoundMessage(Strip(SearchBadCol(error, 1)), columns)
        ELSE IF Contains(error_lower, <<"s", "y", "n", "t", "a", "x", " ", "e", "r", "r", "o",
            "r">>) THEN MsgSyntax
        ELSE IF Contains(error_lower, <<"b", "i", "n", "d", "e",
            "r">>) \/ Contains(error_lower, <<"c", "a", "t", "a", "l", "o", "g">>)
             THEN <<"C", "o", "l", "u", "m", "n", " ", "r", "e", "f", "e", "r", "e", "n", "c",
                 "e", " ", "e", "r", "r", "o", "r", ".", " ", "A", "v", "a", "i", "l", "a",
                 "b", "l", "e", " ", "c", "o", "l", "u", "m", "n", "s", ":",
                 " ">> \o Join(Take(columns, 5))
        ELSE <<"Q", "u", "e", "r", "y", " ", "f", "a", "i", "l", "e", "d", ":", " ">> \o error

(***************************************************************************)
(* agent.py: extract_columns_from_query                                    *)
(***************************************************************************)
\* the k-th smallest of a set of positions
Nth(S, k) == CHOOSE p \in S : Cardinality({r \in S : r < p}) = k - 1

extract_columns_from_query(q) ==
    IF ~ Contains(Upper(q), SelectKw) THEN <<>>
    ELSE
    LET \* query.split("FROM")[0]
        fromAt == {p \in 1..(Len(q) - 3) : SubSeq(q, p, p + 3) = <<"F", "R", "O", "M">>}
        head == IF fromAt = {} THEN q ELSE SubSeq(q, 1, Nth(fromAt, 1) - 1)
        \* re.sub(r'SELECT\s+', '', select_part, flags=re.I): each match is the
        \* keyword with the whole whitespace run behind it
        starts == {p \in 1..(Len(head) - 6) :
                      NameAt(head, SelectKw, p) /\ head[p + 6] \in Whitespace}
        matched == {k \in 1..Len(head) :
                      \E p \in starts :
                          /\ k >= p
                          /\ k <= p + 5 \/ \A j \in (p + 6)..k : head[j] \in Whitespace}
        kept == (1..Len(head)) \ matched
        select_part == Strip([k \in 1..Cardinality(kept) |-> head[Nth(kept, k)]])
    IN  IF Contains(select_part, <<"*">>) THEN << <<"*">> >>
        ELSE
        LET \* select_part.split(",")
            commas == {p \in 1..Len(select_part) : select_part[p] = ","}
            n == Cardinality(commas) + 1
            parts == [k \in 1..n |->
                        SubSeq(select_part,
                               IF k = 1 THEN 1 ELSE Nth(commas, k - 1) + 1,
                               IF k = n THEN Len(select_part) ELSE Nth(commas, k) - 1)]
            \* re.split(r'\s+AS\s+', part, flags=re.I)[0]
            asAt(part) == {p \in 1..Len(part) :
                            /\ part[p] \in Whitespace
                            /\ \E r \in (p + 1)..(Len(part) - 2) :
                                  /\ \A j \in p..(r - 1) : part[j] \in Whitespace
                                  /\ Upper(SubSeq(part, r, r + 1)) = <<"A", "S">>
                                  /\ part[r + 2] \in Whitespace}
            beforeAs(part) == IF asAt(part) = {} THEN part
                              ELSE SubSeq(part, 1, Nth(asAt(part), 1) - 1)
            \* re.search(r'"([^"]+)"|`([^`]+)`|(\w+)', part): the first group that matched
            col(part) == SearchBadCol(beforeAs(part), 1)
            appended == SelectSeq(parts, LAMBDA part :
                            /\ col(part) # NoneVal
                            /\ Upper(col(part)) \notin
                                  {SelectKw, <<"D", "I", "S", "T", "I", "N", "C", "T">>,
                                   <<"C", "O", "U", "N", "T">>, <<"A", "V", "G">>,
                                   <<"S", "U", "M">>, <<"M", "A", "X">>,
                                   <<"M", "I", "N">>})
        IN  [k \in 1..Len(appended) |-> col(appended[k])]

(***************************************************************************)
(* agent.py: LLMModel.generate_response.  The service either raises (a     *)
(* timeout, an authentication error, ...), or answers with a content that  *)
(* is a text or None.                                                      *)
(***************************************************************************)

\* what the model writes when it answers
ModelOutputs == {
    <<"S", "E", "L", "E", "C", "T", " ", "P", "r", "o", "f">>,
    <<Backtick, Backtick, Backtick, "s", "q", "l", "\n",
      "S", "E", "L", "E", "C", "T", " ", "x", "\n", Backtick, Backtick, Backtick>>,
    <<"D", "R", "O", "P", " ", "T", "A", "B", "L", "E", " ", "t">>,
    <<"S", "E", "L", "E", "C", "T", " ", "1", ";", "D", "R", "O", "P", " ",
      "T", "A", "B", "L", "E", " ", "t">>,
    <<"S", "E", "L", "E", "C", "T", " ", "1", ";", "S", "E", "L", "E", "C", "T", " ", "2">>,
    <<"S", "o", "r", "r", "y">> }

\* the behaviours of the model service on one call
ServiceOutcomes ==
    {[kind |-> "raise", content |-> NoneVal], [kind |-> "answer", content |-> NoneVal]}
        \cup {[kind |-> "answer", content |-> t] : t \in ModelOutputs}

generate_response(cl, outcome) ==
    IF cl = "none" THEN <<"M", "o", "c", "k", " ", "r", "e", "s", "p", "o", "n", "s", "e", " ",
        "(", "i", "n", "s", "t", "a", "l", "l", " ", "g", "r", "o", "q", ")", ".">>
    ELSE IF outcome.kind = "raise" THEN <<"L", "L", "M", " ", "e", "r", "r", "o", "r", ":",
        " ", "t", "i", "m", "e", "o", "u", "t">>
    ELSE outcome.content

\* how the call went: "mock" without a client, "raise" when the service raised
\* (the except clause returned the error text), "empty" for a response without
\* content, "answer" otherwise
CallKind(cl, outcome) ==
    IF cl = "none" THEN "mock"
    ELSE IF outcome.kind = "raise" THEN "raise"
    ELSE IF outcome.content = NoneVal THEN "empty"
    ELSE "answer"

(***************************************************************************)
(* data_manager.py: the Tabular Store and query_data.                      *)
(***************************************************************************)
NoName == "<None>"

DatasetNames == {"sales", "gw"}

\* column names of the uploaded tables
ColRegion == <<"R", "e", "g", "i", "o", "n">>
ColProfit == <<"P", "r", "o", "f", "i", "t">>
ColLimit == <<"L", "i", "m", "i", "t">>
ColumnsOfSales == <<ColRegion, ColProfit>>
ColumnsOfGw == <<<<"A", "g", "e">>, <<"A", "g", "e", " ", "G", "r", "o", "u", "p">>>>

\* a DataFrame read from an uploaded file: its columns, their dtypes, its row count
\* (labels: the type of its column labels; a JSON or Excel file can give integers)
TableSales == [columns |-> ColumnsOfSales, dtypes |-> <<<<"o", "b", "j", "e", "c", "t">>, <<"i", "n", "t", "6", "4">>>>, rows |-> 2,
               labels |-> "str"]
TableGw == [columns |-> ColumnsOfGw, dtypes |-> <<<<"i", "n", "t", "6", "4">>, <<"o", "b", "j", "e", "c", "t">>>>, rows |-> 1,
            labels |-> "str"]
TableCredit == [columns |-> <<ColRegion, ColLimit, ColProfit>>, dtypes |-> <<<<"o", "b", "j", "e", "c", "t">>,
    <<"f", "l", "o", "a", "t", "6", "4">>, <<"i", "n", "t", "6", "4">>>>,
                rows |-> 1, labels |-> "str"]
TableNumbered == [columns |-> <<<<"0">>, <<"1">>>>, dtypes |-> <<<<"i", "n", "t", "6", "4">>, <<"i", "n", "t", "6", "4">>>>,
                  rows |-> 2, labels |-> "int"]

\* no table: the value of a local that is not assigned yet
NoTable == [columns |-> <<>>, dtypes |-> <<>>, rows |-> 0, labels |-> "str"]

\* lines 33-39: the registry entry made of a DataFrame
Entry(df) ==
    [dataframe |-> df,
     row_count |-> df.rows,
     column_count |-> Len(df.columns),
     columns |-> df.columns,
     dtypes |-> df.dtypes]

\* mutant: the given name ignored
ResolveName_CurrentOnly(name) == current_dataset

\* name = dataset_name or self.current_dataset
ResolveName(name) == IF name # NoName THEN name ELSE current_dataset

\* mutant: an unknown name falls back to the current dataset
get_dataset_info_FallsBack(name) ==
    IF name \in DOMAIN datasets THEN name
    ELSE IF current_dataset \in DOMAIN datasets THEN current_dataset
    ELSE NoName

\* get_dataset_info: info["name"], or NoName for {"error": "Dataset not found"}
get_dataset_info(name) ==
    IF ResolveName(name) \notin DOMAIN datasets THEN NoName ELSE ResolveName(name)

\* the reserved key "error"
ErrorKey == <<"e", "r", "r", "o", "r">>

\* a row of a Result Set: its keys, and the value under the key "error"
DataRow(cols) == [keys |-> cols,
                  error |-> IF ErrorKey \in cols THEN <<"c", "e", "l", "l">> ELSE <<>>]
ErrorRow(msg) == [keys |-> {ErrorKey}, error |-> msg]

NoDatasetSelected == <<"N", "o", " ", "d", "a", "t", "a", "s", "e", "t", " ",
                       "s", "e", "l", "e", "c", "t", "e", "d">>

ReferencedColumn(ident) ==
    <<"R", "e", "f", "e", "r", "e", "n", "c", "e", "d", " ", "c", "o", "l", "u", "m", "n", " ",
      DQ>> \o ident \o
    <<DQ, " ", "n", "o", "t", " ", "f", "o", "u", "n", "d", " ", "i", "n", " ",
      "F", "R", "O", "M", " ", "c", "l", "a", "u", "s", "e", "!">>

ColumnNotFoundError(ident) == <<"B", "i", "n", "d", "e", "r", " ", "E", "r", "r", "o", "r",
    ":", " ">> \o ReferencedColumn(ident)

ParserError(near) ==
    <<"P", "a", "r", "s", "e", "r", " ", "E", "r", "r", "o", "r", ":", " ",
      "s", "y", "n", "t", "a", "x", " ", "e", "r", "r", "o", "r", " ", "a", "t", " ",
      "o", "r", " ", "n", "e", "a", "r", " ", DQ>> \o near \o <<DQ>>

ConversionError ==
    <<"C", "o", "n", "v", "e", "r", "s", "i", "o", "n", " ", "E", "r", "r", "o", "r", ":", " ",
      "C", "o", "u", "l", "d", " ", "n", "o", "t", " ", "c", "o", "n", "v", "e", "r", "t", " ",
      "s", "t", "r", "i", "n", "g", " ", "t", "o", " ", "I", "N", "T", "3", "2">>

EngineErrors ==
    {ColumnNotFoundError(<<"P", "r", "o", "f">>), ParserError(<<"x">>), ConversionError}

\* LIMIT 20 of the fallback query
FallbackLimit == 20

\* the text is the statement SELECT * FROM current_data LIMIT 20 (keywords and
\* identifiers are case-insensitive)
IsSelectAll(executed) == Upper(executed) \in {Upper(Fallback), Upper(<<"S", "E", "L", "E", "C",
    "T", " ", "*", " ", "F", "R", "O", "M", " ", DQ, "c", "u", "r", "r", "e", "n", "t", "_",
    "d", "a", "t", "a", DQ, " ", "L", "I", "M", "I", "T", " ", "2", "0">>)}

\* the text is that statement with a keyword, the star or the number delimited:
\* a delimited word is an identifier, so the statement no longer parses or binds
IsBrokenSelectAll(executed) ==
    /\ Upper(SelectSeq(executed, LAMBDA c : c # DQ)) = Upper(Fallback)
    /\ ~ IsSelectAll(executed)

\* what the engine does with the text it is handed, on the table df bound as
\* current_data: it returns rows, or it raises
EngineOutcomes(executed, df) ==
    IF IsSelectAll(executed)
    THEN {[ok |-> TRUE,
           rows |-> IF df.rows < FallbackLimit THEN df.rows ELSE FallbackLimit,
           cols |-> {df.columns[i] : i \in 1..Len(df.columns)}, msg |-> <<>>]}
    ELSE IF IsBrokenSelectAll(executed)
    THEN \* with LIMIT delimited the parser reads the word as an alias of the
         \* table and stops at the number behind it
         {[ok |-> FALSE, rows |-> 0, cols |-> {}, msg |-> m] :
             m \in IF Contains(Upper(executed), <<DQ, "L", "I", "M", "I", "T", DQ>>)
                   THEN {ParserError(<<"2", "0">>)}
                   ELSE EngineErrors}
    ELSE {[ok |-> TRUE, rows |-> n, cols |-> c, msg |-> <<>>] :
             n \in 0..MaxRows, c \in {{<<"x">>}, {ErrorKey, <<"x">>}}}
         \cup {[ok |-> FALSE, rows |-> 0, cols |-> {}, msg |-> m] : m \in EngineErrors}

\* mutant: the engine's text returned as it is
ErrorResultSet_Raw(error, columns) == <<ErrorRow(error)>>

\* lines 101-104: the Result Set returned when the engine raised
ErrorResultSet(error, columns) == <<ErrorRow(enhance_error(error, columns))>>

\* result_df.to_dict('records')
RecordsOf(outcome) == [i \in 1..outcome.rows |-> DataRow(outcome.cols)]

\* str(e) of the TypeError that len(col) raises in the quoter's sort on a column
\* label that is an integer
LabelTypeError ==
    <<"o", "b", "j", "e", "c", "t", " ", "o", "f", " ", "t", "y", "p", "e", " ",
      "'", "i", "n", "t", "'", " ", "h", "a", "s", " ", "n", "o", " ", "l", "e", "n", "(", ")">>

QuoteRaises(df) == df.labels # "str"

\* str(e) when conn.register raises
RegisterError ==
    <<"I", "n", "v", "a", "l", "i", "d", " ", "I", "n", "p", "u", "t", " ",
      "E", "r", "r", "o", "r", ":", " ", "C", "o", "u", "l", "d", " ", "n", "o", "t", " ",
      "r", "e", "g", "i", "s", "t", "e", "r", " ", "t", "h", "e", " ", "t", "a", "b", "l", "e">>


\* the engine's behaviours on the call query_data(q, name)
OutcomesFor(q, name) ==
    IF ResolveName(name) \notin DOMAIN datasets
    THEN {[ok |-> FALSE, rows |-> 0, cols |-> {}, msg |-> <<>>]}
    ELSE IF QuoteRaises(datasets[ResolveName(name)].dataframe)
    THEN {[ok |-> FALSE, rows |-> 0, cols |-> {}, msg |-> LabelTypeError]}
    ELSE EngineOutcomes(quote_column_names_smart(q, datasets[ResolveName(name)].columns),
                        datasets[ResolveName(name)].dataframe)

\* query_data: the Result Set for a query on the dataset that name resolves to
query_data(q, name, outcome) ==
    IF ResolveName(name) \notin DOMAIN datasets
    THEN <<ErrorRow(NoDatasetSelected)>>
    ELSE IF outcome.ok
         THEN RecordsOf(outcome)
         ELSE ErrorResultSet(outcome.msg, datasets[ResolveName(name)].columns)

\* line 85: the table query_data runs the query on, NoTable when none resolves
QueriedTable(name) ==
    IF ResolveName(name) \notin DOMAIN datasets THEN NoTable
    ELSE datasets[ResolveName(name)].dataframe

\* the query as query_data hands it to the engine
ExecutedText(q, name) ==
    IF ResolveName(name) \notin DOMAIN datasets THEN <<>>
    ELSE IF QuoteRaises(datasets[ResolveName(name)].dataframe) THEN <<>>
    ELSE quote_column_names_smart(q, datasets[ResolveName(name)].columns)

(***************************************************************************)
(* data_manager.py: query_data statement by statement, called by the       *)
(* sessions of the app, which share the one DataManager instance.          *)
(***************************************************************************)
Callers == {"s1", "s2"}

MaxCalls == 2        \* query_data calls started in a behaviour

\* the queries the sessions execute
CallQueries == {Fallback, <<"S", "E", "L", "E", "C", "T", " ", "P", "r", "o", "f">>}

NoConn == 0

IdleCall == [pc |-> "idle", q |-> <<>>, dn |-> NoName, name |-> NoName, df |-> NoTable,
             conn |-> NoConn, quoted_query |-> <<>>, error |-> <<>>,
             result_df |-> [rows |-> 0, cols |-> {}], result |-> <<>>]

\* mutant: one module-level connection that every call uses
Connect_Shared(cs, c) ==
    IF cs = <<>> THEN <<[open |-> TRUE, owner |-> c, current_data |-> NoTable]>>
    ELSE [cs EXCEPT ![1].open = TRUE]

\* line 86: duckdb.connect() opens a new in-memory database
Connect(cs, c) == Append(cs, [open |-> TRUE, owner |-> c, current_data |-> NoTable])

\* conn.close()
Close(cs, k) == [cs EXCEPT ![k].open = FALSE]

\* line 79: a session calls query_data(q, dn)
QdCall(c) ==
    /\ calls[c].pc \in {"idle", "returned"}
    /\ nCalls < MaxCalls
    /\ nCalls' = nCalls + 1
    /\ \E q \in CallQueries, dn \in DatasetNames \cup {NoName} :
          calls' = [calls EXCEPT ![c] = [IdleCall EXCEPT !.pc = "resolve", !.q = q, !.dn = dn]]
    /\ UNCHANGED <<conns, lastOp>>
    /\ UNCHANGED <<fnVars, storeVars, agentVars, dash>>

\* lines 81-85
QdResolve(c) ==
    /\ calls[c].pc = "resolve"
    /\ LET name == ResolveName(calls[c].dn)
       IN  calls' = [calls EXCEPT ![c] =
              IF name \notin DOMAIN datasets
              THEN [@ EXCEPT !.pc = "returned", !.name = name,
                             !.result = <<ErrorRow(NoDatasetSelected)>>]
              ELSE [@ EXCEPT !.pc = "connect", !.name = name,
                             !.df = datasets[name].dataframe]]
    /\ UNCHANGED <<conns, nCalls, lastOp>>
    /\ UNCHANGED <<fnVars, storeVars, agentVars, dash>>

\* line 86
QdConnect(c) ==
    /\ calls[c].pc = "connect"
    /\ conns' = Connect(conns, c)
    /\ calls' = [calls EXCEPT ![c].pc = "register", ![c].conn = Len(conns')]
    /\ UNCHANGED <<nCalls, lastOp>>
    /\ UNCHANGED <<fnVars, storeVars, agentVars, dash>>

\* line 90: the table is bound as current_data on the connection, or the engine raises
QdRegister(c) ==
    /\ calls[c].pc = "register"
    /\ \/ /\ conns' = [conns EXCEPT ![calls[c].conn].current_data = calls[c].df]
          /\ calls' = [calls EXCEPT ![c].pc = "quote"]
       \/ /\ calls' = [calls EXCEPT ![c].pc = "except", ![c].error = RegisterError]
          /\ UNCHANGED conns
    /\ UNCHANGED <<nCalls, lastOp>>
    /\ UNCHANGED <<fnVars, storeVars, agentVars, dash>>

\* line 93
QdQuote(c) ==
    /\ calls[c].pc = "quote"
    /\ calls' = [calls EXCEPT ![c] =
          IF QuoteRaises(calls[c].df)
          THEN [@ EXCEPT !.pc = "except", !.error = LabelTypeError]
          ELSE [@ EXCEPT !.pc = "execute",
                         !.quoted_query = quote_column_names_smart(calls[c].q,
                                                                   calls[c].df.columns)]]
    /\ UNCHANGED <<conns, nCalls, lastOp>>
    /\ UNCHANGED <<fnVars, storeVars, agentVars, dash>>

\* line 96: the engine runs the text on the table bound on the call's connection
QdExecute(c) ==
    /\ calls[c].pc = "execute"
    /\ \E outcome \in EngineOutcomes(calls[c].quoted_query,
                                     conns[calls[c].conn].current_data) :
          calls' = [calls EXCEPT ![c] =
             IF outcome.ok
             THEN [@ EXCEPT !.pc = "close",
                            !.result_df = [rows |-> outcome.rows, cols |-> outcome.cols]]
             ELSE [@ EXCEPT !.pc = "except", !.error = outcome.msg]]
    /\ UNCHANGED <<conns, nCalls, lastOp>>
    /\ UNCHANGED <<fnVars, storeVars, agentVars, dash>>

\* line 97
QdClose(c) ==
    /\ calls[c].pc = "close"
    /\ conns' = Close(conns, calls[c].conn)
    /\ calls' = [calls EXCEPT ![c].pc = "to_dict"]
    /\ UNCHANGED <<nCalls, lastOp>>
    /\ UNCHANGED <<fnVars, storeVars, agentVars, dash>>

\* line 99
QdReturn(c) ==
    /\ calls[c].pc = "to_dict"
    /\ calls' = [calls EXCEPT ![c].pc = "returned", ![c].result = RecordsOf(calls[c].result_df)]
    /\ UNCHANGED <<conns, nCalls, lastOp>>
    /\ UNCHANGED <<fnVars, storeVars, agentVars, dash>>

\* mutant: an except clause that does not close the connection
QdExcept_NoClose(c) ==
    /\ calls[c].pc = "except"
    /\ calls' = [calls EXCEPT ![c].pc = "returned",
                              ![c].result = ErrorResultSet(calls[c].error,
                                                             calls[c].df.columns)]
    /\ UNCHANGED <<conns, nCalls, lastOp>>
    /\ UNCHANGED <<fnVars, storeVars, agentVars, dash>>

\* lines 101-104
QdExcept(c) ==
    /\ calls[c].pc = "except"
    /\ conns' = Close(conns, calls[c].conn)
    /\ calls' = [calls EXCEPT ![c].pc = "returned",
                              ![c].result = ErrorResultSet(calls[c].error,
                                                             calls[c].df.columns)]
    /\ UNCHANGED <<nCalls, lastOp>>
    /\ UNCHANGED <<fnVars, storeVars, agentVars, dash>>

(***************************************************************************)
(* agent.py: run_agent, statement by statement.                            *)
(***************************************************************************)
\* results and isinstance(results[0], dict) and "error" in results[0]
IsErrorResult(rs) == Len(rs) > 0 /\ ErrorKey \in rs[1].keys

NoResponse == [content |-> [kind |-> "none", isStr |-> FALSE, text |-> <<>>, error |-> <<>>],
               keys |-> {}, query_used |-> <<>>, results_count |-> 0,
               dataset |-> NoName, error |-> <<>>]

\* lines 105-108
NoDatasetResponse ==
    [content |-> [kind |-> "Please upload a dataset first.", isStr |-> TRUE,
                  text |-> <<>>, error |-> <<>>],
     keys |-> {"error"}, query_used |-> <<>>, results_count |-> 0,
     dataset |-> NoName, error |-> <<"N", "o", " ", "d", "a", "t", "a", "s", "e", "t">>]

\* lines 131-138
FailureResponse(q, rs, name) ==
    [content |-> [kind |-> "I couldn't analyze that data. Error: {error}", isStr |-> TRUE,
                  text |-> <<>>, error |-> rs[1].error],
     keys |-> {"query_used", "error", "dataset"}, query_used |-> q,
     results_count |-> 0, dataset |-> name, error |-> rs[1].error]

\* lines 168-176
AnswerResponse(answer, q, rs, name) ==
    [content |-> [kind |-> "answer", isStr |-> answer # NoneVal, text |-> answer,
                  error |-> <<>>],
     keys |-> {"query_used", "results_count", "dataset", "columns_analyzed"},
     query_used |-> q, results_count |-> Len(rs), dataset |-> name, error |-> <<>>]

\* lines 178-179
ExceptionResponse(e) ==
    [content |-> [kind |-> "Error: {e}", isStr |-> TRUE, text |-> <<>>, error |-> e],
     keys |-> {"error"}, query_used |-> <<>>, results_count |-> 0,
     dataset |-> NoName, error |-> e]

\* lines 116-117
SafetyNet(q) == IF ~ is_safe_sql(q) THEN Fallback ELSE q

\* mutant: a third attempt after a failed repair
AfterSecondExecution_RetryAgain(rs) == IF IsErrorResult(rs) THEN "repair" ELSE "summarize"

\* lines 130-138: after the second execution the error is returned
AfterSecondExecution(rs) == IF IsErrorResult(rs) THEN "done" ELSE "summarize"

\* lines 258-262: schema, one line per column of dataset_info["columns"] with
\* str(df[col].dtype), from column k on
RECURSIVE SchemaLines(_, _)
SchemaLines(table, k) ==
    IF k > Len(table.columns) THEN <<>>
    ELSE <<"-", " ", DQ>> \o table.columns[k] \o <<DQ, " ", "(">> \o table.dtypes[k]
         \o <<")">> \o (IF k < Len(table.columns) THEN <<"\n">> ELSE <<>>)
         \o SchemaLines(table, k + 1)

\* mutant: a repair prompt that does not quote the error
retry_prompt_NoError(question, table, error) ==
        <<"\n", "\n", "T", "a", "b", "l", "e", ":", " ", "c", "u", "r", "r", "e", "n", "t",
          "_", "d", "a", "t", "a", "\n", "C", "o", "l", "u", "m", "n", "s", " ", "(", "u",
          "s", "e", " ", "d", "o", "u", "b", "l", "e", " ", "q", "u", "o", "t", "e", "s",
          ")", ":", "\n">>
        \o SchemaLines(table, 1) \o
        <<"\n", "\n", "Q", "u", "e", "s", "t", "i", "o", "n", ":", " ">>
        \o question

\* lines 264-280: the prompt of retry_sql_generation
retry_prompt(question, table, error) ==
        <<"\n", "T", "h", "e", " ", "p", "r", "e", "v", "i", "o", "u", "s", " ", "S", "Q",
          "L", " ", "q", "u", "e", "r", "y", " ", "f", "a", "i", "l", "e", "d", " ", "w",
          "i", "t", "h", " ", "t", "h", "i", "s", " ", "e", "r", "r", "o", "r", ":", "\n">>
        \o error \o
        <<"\n", "\n", "T", "a", "b", "l", "e", ":", " ", "c", "u", "r", "r", "e", "n", "t",
          "_", "d", "a", "t", "a", "\n", "C", "o", "l", "u", "m", "n", "s", " ", "(", "u",
          "s", "e", " ", "d", "o", "u", "b", "l", "e", " ", "q", "u", "o", "t", "e", "s",
          ")", ":", "\n">>
        \o SchemaLines(table, 1) \o
        <<"\n", "\n", "Q", "u", "e", "s", "t", "i", "o", "n", ":", " ">>
        \o question \o
        <<"\n", "\n", "W", "r", "i", "t", "e", " ", "a", " ", "c", "o", "r", "r", "e", "c",
          "t", "e", "d", " ", "S", "Q", "L", " ", "q", "u", "e", "r", "y", ".", " ", "R",
          "e", "m", "e", "m", "b", "e", "r", ":", "\n", "1", ".", " ", "U", "s", "e", " ",
          "d", "o", "u", "b", "l", "e", " ", "q", "u", "o", "t", "e", "s", ":", " ", DQ,
          "C", "o", "l", "u", "m", "n", " ", "N", "a", "m", "e", DQ, "\n", "2", ".", " ",
          "U", "s", "e", " ", "e", "x", "a", "c", "t", " ", "c", "o", "l", "u", "m", "n",
          " ", "n", "a", "m", "e", "s", " ", "f", "r", "o", "m", " ", "s", "c", "h", "e",
          "m", "a", "\n", "3", ".", " ", "K", "e", "e", "p", " ", "i", "t", " ", "s", "i",
          "m", "p", "l", "e", " ", "i", "f", " ", "t", "h", "e", " ", "q", "u", "e", "s",
          "t", "i", "o", "n", " ", "i", "s", " ", "a", "m", "b", "i", "g", "u", "o", "u",
          "s", "\n", "\n", "R", "e", "t", "u", "r", "n", " ", "O", "N", "L", "Y", " ", "t",
          "h", "e", " ", "S", "Q", "L", ":", "\n">>

\* the questions the users ask
Questions == {<<"t", "o", "p", " ", "3", " ", "r", "e", "g", "i", "o", "n", "s">>, <<"t", "o", "t", "a", "l", " ", "p", "r", "o", "f", "i", "t">>}

\* lines 98-110
AgentStart ==
    /\ pc = "start"
    /\ info' = get_dataset_info(dataset_name)
    /\ IF get_dataset_info(dataset_name) = NoName
       THEN pc' = "done" /\ response' = NoDatasetResponse /\ UNCHANGED agent_df
       ELSE /\ pc' = "draft"
            /\ agent_df' = datasets[get_dataset_info(dataset_name)].dataframe
            /\ UNCHANGED response
    /\ UNCHANGED <<client, message, dataset_name, query, results, error_msg, llmLog, execLog>>
    /\ UNCHANGED <<fnVars, storeVars, callVars, dash>>

\* line 113
Draft ==
    /\ pc = "draft"
    /\ \E outcome \in ServiceOutcomes :
          /\ query' = generate_sql_with_llm(generate_response(client, outcome))
          /\ llmLog' = Append(llmLog, [phase |-> "draft",
                                       kind |-> CallKind(client, outcome)])
    /\ pc' = "gate"
    /\ UNCHANGED <<client, message, dataset_name, info, agent_df, results, error_msg, execLog, response>>
    /\ UNCHANGED <<fnVars, storeVars, callVars, dash>>

\* lines 116-117
Gate ==
    /\ pc = "gate"
    /\ query' = SafetyNet(query)
    /\ pc' = "exec1"
    /\ UNCHANGED <<client, message, dataset_name, info, agent_df, results, error_msg, llmLog, execLog, response>>
    /\ UNCHANGED <<fnVars, storeVars, callVars, dash>>

\* lines 120-124
Exec1 ==
    /\ pc = "exec1"
    /\ \E outcome \in OutcomesFor(query, dataset_name) :
          /\ results' = query_data(query, dataset_name, outcome)
          /\ execLog' = Append(execLog, [query |-> query,
                                         executed |-> ExecutedText(query, dataset_name),
                                         ok |-> outcome.ok,
                                         genKind |-> llmLog[Len(llmLog)].kind,
                                         dataset |-> ResolveName(dataset_name),
                                         table |-> QueriedTable(dataset_name),
                                         result |-> results'])
    /\ IF IsErrorResult(results')
       THEN pc' = "repair" /\ error_msg' = results'[1].error
       ELSE pc' = "summarize" /\ UNCHANGED error_msg
    /\ UNCHANGED <<client, message, dataset_name, info, agent_df, query, llmLog, response>>
    /\ UNCHANGED <<fnVars, storeVars, callVars, dash>>

\* line 126
Repair ==
    /\ pc = "repair"
    /\ \E outcome \in ServiceOutcomes :
          /\ query' = retry_sql_generation(generate_response(client, outcome))
          /\ llmLog' = Append(llmLog, [phase |-> "repair",
                                       kind |-> CallKind(client, outcome),
                                       prompt |-> retry_prompt(message, agent_df,
                                                               error_msg)])
    /\ pc' = "exec2"
    /\ UNCHANGED <<client, message, dataset_name, info, agent_df, results, error_msg, execLog, response>>
    /\ UNCHANGED <<fnVars, storeVars, callVars, dash>>

\* lines 127-138
Exec2 ==
    /\ pc = "exec2"
    /\ \E outcome \in OutcomesFor(query, dataset_name) :
          /\ results' = query_data(query, dataset_name, outcome)
          /\ execLog' = Append(execLog, [query |-> query,
                                         executed |-> ExecutedText(query, dataset_name),
                                         ok |-> outcome.ok,
                                         genKind |-> llmLog[Len(llmLog)].kind,
                                         dataset |-> ResolveName(dataset_name),
                                         table |-> QueriedTable(dataset_name),
                                         result |-> results'])
    /\ pc' = AfterSecondExecution(results')
    /\ response' = IF AfterSecondExecution(results') = "done"
                   THEN FailureResponse(query, results', info)
                   ELSE response
    /\ UNCHANGED <<client, message, dataset_name, info, agent_df, query, error_msg, llmLog>>
    /\ UNCHANGED <<fnVars, storeVars, callVars, dash>>

\* lines 141-179: json.dumps(results[:10]) raises TypeError on a value that is
\* not serializable (a timestamp), which the except clause turns into a response
Summarize ==
    /\ pc = "summarize"
    /\ \E serializable \in BOOLEAN, outcome \in ServiceOutcomes :
          IF ~ serializable
          THEN /\ response' = ExceptionResponse(<<"O", "b", "j", "e", "c", "t", " ", "o", "f",
                   " ", "t", "y", "p", "e", " ", "T", "i", "m", "e", "s", "t", "a", "m", "p",
                   " ", "i", "s", " ", "n", "o", "t", " ", "J", "S", "O", "N", " ", "s", "e",
                   "r", "i", "a", "l", "i", "z", "a", "b", "l", "e">>)
               /\ UNCHANGED llmLog
          ELSE /\ response' = AnswerResponse(generate_response(client, outcome),
                                             query, results, info)
               /\ llmLog' = Append(llmLog, [phase |-> "summary",
                                            kind |-> CallKind(client, outcome)])
    /\ pc' = "done"
    /\ UNCHANGED <<client, message, dataset_name, info, agent_df, query, results, error_msg, execLog>>
    /\ UNCHANGED <<fnVars, storeVars, callVars, dash>>

(***************************************************************************)
(* data_manager.py: the operations of the Tabular Store, as the sessions   *)
(* of the app call them on the one DataManager instance.                   *)
(***************************************************************************)
MaxOps == 2          \* calls of the store's operations and of run_agent in a behaviour

\* uploaded files: the extension of the file name, and the table pandas reads
\* from it (NoTable with readable FALSE when the reader raises)
Files == {
    [ext |-> "csv", readable |-> TRUE, df |-> TableSales],
    [ext |-> "CSV", readable |-> TRUE, df |-> TableGw],
    [ext |-> "xlsx", readable |-> TRUE, df |-> TableCredit],
    [ext |-> "json", readable |-> TRUE, df |-> TableNumbered],
    [ext |-> "csv", readable |-> FALSE, df |-> NoTable],
    [ext |-> "pdf", readable |-> TRUE, df |-> NoTable] }

NoOp == [n |-> 0, op |-> "none", name |-> NoName, arg |-> <<>>, ok |-> FALSE,
         before |-> <<>>, beforeCurrent |-> NoName, ret |-> <<>>]

\* what a call of op leaves in lastOp: its arguments, the store it found, and
\* what it returned
Op(op, name, arg, ok, ret) ==
    [n |-> lastOp.n + 1, op |-> op, name |-> name, arg |-> arg, ok |-> ok,
     before |-> datasets, beforeCurrent |-> current_dataset, ret |-> ret]

\* mutant: an upload that keeps the counts of the entry it replaces
Uploaded_Merged(ds, n, df) ==
    [m \in DOMAIN ds \cup {n} |->
        IF m # n THEN ds[m]
        ELSE IF n \in DOMAIN ds
             THEN [Entry(df) EXCEPT !.row_count = ds[n].row_count,
                                    !.column_count = ds[n].column_count]
             ELSE Entry(df)]

\* lines 33-39: self.datasets[dataset_name] = {...}
Uploaded(ds, n, df) == [m \in DOMAIN ds \cup {n} |-> IF m = n THEN Entry(df) ELSE ds[m]]

\* mutant: an upload that makes the name current before it reads the file
UploadDataset_PointerFirst ==
    /\ lastOp.n < MaxOps
    /\ \E file \in Files, n \in DatasetNames :
          /\ current_dataset' = n
          /\ IF file.ext \in {"csv", "CSV", "xlsx", "json"} /\ file.readable
             THEN /\ datasets' = Uploaded(datasets, n, file.df)
                  /\ lastOp' = Op("upload_dataset", n, file, TRUE,
                                  [dataset_name |-> n, row_count |-> file.df.rows,
                                   column_count |-> Len(file.df.columns),
                                   columns |-> file.df.columns])
             ELSE /\ lastOp' = Op("upload_dataset", n, file, FALSE, "Error processing file")
                  /\ UNCHANGED datasets
    /\ UNCHANGED <<calls, conns, nCalls>>
    /\ UNCHANGED <<fnVars, agentVars, dash>>

\* lines 18-53; file.name.split('.')[-1].lower() makes csv of CSV
UploadDataset ==
    /\ lastOp.n < MaxOps
    /\ \E file \in Files, n \in DatasetNames :
          IF (IF file.ext = "CSV" THEN "csv" ELSE file.ext)
                \notin {"csv", "txt", "xlsx", "xls", "json"}
          THEN /\ lastOp' = Op("upload_dataset", n, file, FALSE, "Unsupported file format")
               /\ UNCHANGED storeVars
          ELSE IF ~ file.readable
          THEN /\ lastOp' = Op("upload_dataset", n, file, FALSE, "Error processing file")
               /\ UNCHANGED storeVars
          ELSE /\ datasets' = Uploaded(datasets, n, file.df)
               /\ current_dataset' = n
               /\ lastOp' = Op("upload_dataset", n, file, TRUE,
                               [dataset_name |-> n, row_count |-> file.df.rows,
                                column_count |-> Len(file.df.columns),
                                columns |-> file.df.columns])
    /\ UNCHANGED <<calls, conns, nCalls>>
    /\ UNCHANGED <<fnVars, agentVars, dash>>

\* mutant: the pointer is set without the membership test
SetCurrentDataset_Unchecked ==
    /\ lastOp.n < MaxOps
    /\ \E n \in DatasetNames :
          /\ current_dataset' = n
          /\ lastOp' = Op("set_current_dataset", n, <<>>, TRUE, TRUE)
          /\ UNCHANGED datasets
    /\ UNCHANGED <<calls, conns, nCalls>>
    /\ UNCHANGED <<fnVars, agentVars, dash>>

\* lines 58-62
SetCurrentDataset ==
    /\ lastOp.n < MaxOps
    /\ \E n \in DatasetNames :
          IF n \in DOMAIN datasets
          THEN /\ current_dataset' = n
               /\ lastOp' = Op("set_current_dataset", n, <<>>, TRUE, TRUE)
               /\ UNCHANGED datasets
          ELSE /\ lastOp' = Op("set_current_dataset", n, <<>>, FALSE, FALSE)
               /\ UNCHANGED storeVars
    /\ UNCHANGED <<calls, conns, nCalls>>
    /\ UNCHANGED <<fnVars, agentVars, dash>>

\* lines 64-77
GetDatasetInfo ==
    /\ lastOp.n < MaxOps
    /\ \E n \in DatasetNames \cup {NoName} :
          lastOp' = Op("get_dataset_info", n, <<>>, get_dataset_info(n) # NoName,
                       IF get_dataset_info(n) = NoName THEN "Dataset not found"
                       ELSE [name |-> get_dataset_info(n),
                             row_count |-> datasets[get_dataset_info(n)].dataframe.rows,
                             columns |-> datasets[get_dataset_info(n)].dataframe.columns])
    /\ UNCHANGED <<calls, conns, nCalls>>
    /\ UNCHANGED <<fnVars, storeVars, agentVars, dash>>

\* mutant: a query that makes the dataset it ran on the current one
QueryData_SetsCurrent ==
    /\ lastOp.n < MaxOps
    /\ \E q \in CallQueries, n \in DatasetNames \cup {NoName} :
          \E outcome \in OutcomesFor(q, n) :
             /\ lastOp' = Op("query_data", n, q, ~ IsErrorResult(query_data(q, n, outcome)),
                             query_data(q, n, outcome))
             /\ current_dataset' = IF n # NoName THEN n ELSE current_dataset
             /\ UNCHANGED datasets
    /\ UNCHANGED <<calls, conns, nCalls>>
    /\ UNCHANGED <<fnVars, agentVars, dash>>

\* lines 79-104, as one step
QueryData ==
    /\ lastOp.n < MaxOps
    /\ \E q \in CallQueries, n \in DatasetNames \cup {NoName} :
          \E outcome \in OutcomesFor(q, n) :
             lastOp' = Op("query_data", n, q, ~ IsErrorResult(query_data(q, n, outcome)),
                          query_data(q, n, outcome))
    /\ UNCHANGED <<calls, conns, nCalls>>
    /\ UNCHANGED <<fnVars, storeVars, agentVars, dash>>

\* agent.py line 94: a session calls run_agent
AgentCall ==
    /\ lastOp.n < MaxOps
    /\ pc = "off"
    /\ pc' = "start"
    /\ message' \in Questions
    /\ dataset_name' \in DatasetNames \cup {NoName}
    /\ lastOp' = Op("run_agent", dataset_name', <<>>, TRUE, <<>>)
    /\ UNCHANGED <<client, info, agent_df, query, results, error_msg, llmLog, execLog, response>>
    /\ UNCHANGED <<calls, conns, nCalls>>
    /\ UNCHANGED <<fnVars, storeVars, dash>>

\* the registries the store can hold, with the pointer a sequence of uploads
\* leaves: unset exactly when nothing was uploaded
Registries == {
    <<>>,
    [n \in {"sales"} |-> Entry(TableSales)],
    [n \in {"sales", "gw"} |-> IF n = "sales" THEN Entry(TableSales) ELSE Entry(TableGw)] }

AgentOff ==
    /\ datasets = <<>>
    /\ current_dataset = NoName
    /\ pc = "off"
    /\ client = "groq"
    /\ message = <<>>
    /\ dataset_name = NoName
    /\ info = NoName
    /\ agent_df = NoTable
    /\ query = <<>>
    /\ results = <<>>
    /\ error_msg = <<>>
    /\ llmLog = <<>>
    /\ execLog = <<>>
    /\ response = NoResponse

\* no dashboard request: the arguments of dashboard_agent.run_agent, its locals
\* (dataset_info by its name; i, charts of create_vertical_visualizations; uses:
\* the columns each iteration took) and the page it returns
NoDash == [pc |-> "off", dataset_name |-> NoName, selected_columns |-> <<>>,
           chart_types |-> <<>>, dataset_info |-> NoName, df |-> NoTable, i |-> 0,
           charts |-> <<>>, uses |-> <<>>, content |-> "none", dataset |-> NoName]

CallsOff ==
    /\ calls = [c \in Callers |-> IdleCall]
    /\ conns = <<>>
    /\ nCalls = 0
    /\ lastOp = NoOp

Init ==
    /\ argText = <<>>
    /\ argCols = <<>>
    /\ called = ""
    /\ retBool = FALSE
    /\ retText = <<>>
    /\ retText2 = <<>>
    /\ retList = <<>>
    /\ datasets \in Registries
    /\ current_dataset \in IF datasets = <<>> THEN {NoName} ELSE DOMAIN datasets
    /\ pc = "start"
    /\ client \in {"groq", "none"}
    /\ message \in Questions
    /\ dataset_name \in DatasetNames \cup {NoName}
    /\ info = NoName
    /\ agent_df = NoTable
    /\ query = <<>>
    /\ results = <<>>
    /\ error_msg = <<>>
    /\ llmLog = <<>>
    /\ execLog = <<>>
    /\ response = NoResponse
    /\ CallsOff
    /\ dash = NoDash

Next == AgentStart \/ Draft \/ Gate \/ Exec1 \/ Repair \/ Exec2 \/ Summarize

Spec == Init /\ [][Next]_vars

(***************************************************************************)
(* Specification SpecSafe: is_safe_sql applied to a bounded set of queries.*)
(***************************************************************************)
SafeFrags == {
    <<"S", "E", "L", "E", "C", "T", " ", "1">>,
    <<"d", "r", "o", "p">>,
    <<"I", "n", "s", "e", "r", "t">>,
    <<"I", "N", "S", "E", "R", "T", "_", "D", "A", "T", "E">>,
    <<"u", "p", "d">>,
    <<"A", "T", "E">>,
    <<"e", "x", "e", "c">>,
    <<"C", "r", "e", "a", "t", "e">>,
    <<"a", "l", "t", "e", "r">>,
    <<"T", "r", "u", "n", "c", "a", "t", "e">>,
    <<"d", "e", "l", "e", "t", "e">>,
    <<";">>,
    <<"-">>,
    <<"/">>,
    <<"*">>,
    <<" ">> }

NoCall ==
    /\ called = ""
    /\ retBool = FALSE
    /\ retText = <<>>
    /\ retText2 = <<>>
    /\ retList = <<>>

InitSafe ==
    /\ argText \in {Flatten(fs) : fs \in SeqsUpTo(SafeFrags, MaxFrags)}
    /\ argCols = <<>>
    /\ NoCall
    /\ AgentOff
    /\ CallsOff
    /\ dash = NoDash

CallIsSafe ==
    /\ called = ""
    /\ called' = "is_safe_sql"
    /\ retBool' = is_safe_sql(argText)
    /\ UNCHANGED <<argText, argCols, retList, retText, retText2>>
    /\ UNCHANGED <<storeVars, agentVars, callVars, dash>>

SpecSafe == InitSafe /\ [][CallIsSafe]_vars

(***************************************************************************)
(* Specification SpecDraft: generate_sql_with_llm applied to a bounded set *)
(* of model outputs.                                                       *)
(***************************************************************************)
DraftFrags == {
    <<Backtick, Backtick, Backtick, "s", "q", "l", "\n">>,
    <<Backtick, Backtick, Backtick, "S", "Q", "L">>,
    <<"\n", Backtick, Backtick, Backtick>>,
    <<Backtick, Backtick, Backtick>>,
    <<Backtick>>,
    <<"S", "E", "L", "E", "C", "T", " ", "1">>,
    <<"s", "e", "l", "e", "c", "t", " ", "1">>,
    <<"H", "e", "r", "e", ":">>,
    <<" ">>,
    <<"\n">> }

InitDraft ==
    /\ argText \in {Flatten(fs) : fs \in SeqsUpTo(DraftFrags, MaxFrags)} \cup {NoneVal}
    /\ argCols = <<>>
    /\ NoCall
    /\ AgentOff
    /\ CallsOff
    /\ dash = NoDash

CallGenerateSql ==
    /\ called = ""
    /\ called' = "generate_sql_with_llm"
    /\ retText' = generate_sql_with_llm(argText)
    /\ UNCHANGED <<argText, argCols, retList, retBool, retText2>>
    /\ UNCHANGED <<storeVars, agentVars, callVars, dash>>

SpecDraft == InitDraft /\ [][CallGenerateSql]_vars

(***************************************************************************)
(* Specification SpecQuote: _quote_column_names_smart applied to a bounded *)
(* set of queries and column lists, and then to its own result.            *)
(***************************************************************************)
ColAge == <<"A", "g", "e">>
ColAgeLower == <<"a", "g", "e">>
ColGroup == <<"G", "r", "o", "u", "p">>
ColAgeGroup == <<"A", "g", "e", " ", "G", "r", "o", "u", "p">>
ColMaxAgeGroup == <<"M", "a", "x", " ", "A", "g", "e", " ", "G", "r", "o", "u", "p">>

ColumnLists == {
    <<ColAge>>,
    <<ColAge, ColAgeGroup>>,
    <<ColAgeGroup, ColAge>>,
    <<ColGroup, ColAgeGroup>>,
    <<ColAge, ColMaxAgeGroup>>,
    <<ColAgeGroup, ColMaxAgeGroup>>,
    <<ColAge, ColGroup, ColAgeGroup>>,
    <<ColAgeLower, ColAge>> }

QuoteFrags == {
    ColAge,
    ColAgeLower,
    ColGroup,
    ColAgeGroup,
    <<"m", "a", "x", " ", "a", "g", "e", " ", "g", "r", "o", "u", "p">>,
    <<DQ>> \o ColAge \o <<DQ>>,
    <<DQ>> \o ColAgeGroup \o <<DQ>>,
    <<DQ>> \o ColMaxAgeGroup \o <<DQ>>,
    <<DQ>>,
    <<Backtick>>,
    <<" ">>,
    <<",">>,
    <<"x">> }

InitQuote ==
    /\ argText \in {Flatten(fs) : fs \in SeqsUpTo(QuoteFrags, MaxQueryFrags)}
    /\ argCols \in ColumnLists
    /\ NoCall
    /\ AgentOff
    /\ CallsOff
    /\ dash = NoDash

CallQuote ==
    /\ called = ""
    /\ called' = "_quote_column_names_smart"
    /\ retText' = quote_column_names_smart(argText, argCols)
    /\ retText2' = quote_column_names_smart(quote_column_names_smart(argText, argCols), argCols)
    /\ UNCHANGED <<argText, argCols, retList, retBool>>
    /\ UNCHANGED <<storeVars, agentVars, callVars, dash>>

SpecQuote == InitQuote /\ [][CallQuote]_vars

(***************************************************************************)
(* Specification SpecEnhance: _enhance_error applied to a bounded set of   *)
(* error texts and column lists.                                           *)
(***************************************************************************)
ErrorIdents == {
    <<"P", "r", "o", "f">>,
    <<"p", "r", "o", "f">>,
    <<"S", "a", "l", "e", "s">>,
    ColLimit,
    <<"A", "g", "e">> }

\* the engine's texts, and texts that begin with the delimited identifier
ErrorTexts ==
    {ColumnNotFoundError(i) : i \in ErrorIdents}
        \cup {ReferencedColumn(i) : i \in ErrorIdents}
        \cup {<<DQ>> \o i \o <<DQ, " ", "c", "o", "l", "u", "m", "n", " ",
                               "n", "o", "t", " ", "f", "o", "u", "n", "d">> :
                 i \in ErrorIdents}
        \cup {ParserError(i) : i \in ErrorIdents}
        \cup {<<"C", "a", "t", "a", "l", "o", "g", " ", "E", "r", "r", "o", "r", ":", " ", "T",
            "a", "b", "l", "e", " ", "w", "i", "t", "h", " ", "n", "a", "m", "e", " ", "t",
            " ", "d", "o", "e", "s", " ", "n", "o", "t", " ", "e", "x", "i", "s", "t", "!">>,
            ConversionError}

ErrorColumnLists == {ColumnsOfSales, ColumnsOfGw, <<ColProfit, <<"G", "r", "o", "s", "s", " ",
    "P", "r", "o", "f", "i", "t">>, <<"N", "e", "t", " ", "P", "r", "o", "f", "i", "t">>,
    <<"P", "r", "o", "f", "i", "t", " ", "M", "a", "r", "g", "i", "n">>, ColRegion, <<"U", "n",
    "i", "t", "s">>, <<"Y", "e", "a", "r">>>>}

InitEnhance ==
    /\ argText \in ErrorTexts
    /\ argCols \in ErrorColumnLists
    /\ NoCall
    /\ AgentOff
    /\ CallsOff
    /\ dash = NoDash

CallEnhance ==
    /\ called = ""
    /\ called' = "_enhance_error"
    /\ retText' = enhance_error(argText, argCols)
    /\ UNCHANGED <<argText, argCols, retList, retBool, retText2>>
    /\ UNCHANGED <<storeVars, agentVars, callVars, dash>>

SpecEnhance == InitEnhance /\ [][CallEnhance]_vars

(***************************************************************************)
(* Specification SpecColumns: extract_columns_from_query applied to a      *)
(* bounded set of queries.                                                 *)
(***************************************************************************)
InitColumns ==
    /\ argText \in {Flatten(fs) : fs \in SeqsUpTo({
           <<"S", "E", "L", "E", "C", "T", " ">>,
           <<"s", "e", "l", "e", "c", "t", " ">>,
           <<"D", "I", "S", "T", "I", "N", "C", "T", " ", DQ, "C", "a", "t", "e", "g", "o", "r", "y", DQ>>,
           <<"A", "V", "G", "(", DQ, "V", "a", "l", "u", "e", DQ, ")">>,
           <<"C", "O", "U", "N", "T", "(", Backtick, "U", "n", "i", "t", "s", Backtick, ")">>,
           <<"s", "u", "m", "(", "P", "r", "o", "f", "i", "t", ")">>,
           <<DQ, "G", "r", "o", "u", "p", DQ>>,
           <<"R", "e", "g", "i", "o", "n">>,
           <<" ", "A", "S", " ", "a", "v", "g", "_", "v", "a", "l", "u", "e">>,
           <<" ", "a", "s", " ", "r">>,
           <<",", " ">>,
           <<" ", "F", "R", "O", "M", " ", "c", "u", "r", "r", "e", "n", "t", "_", "d", "a", "t", "a">>,
           <<"*">>,
           <<DQ, "m", "i", "n", DQ>>}, MaxFrags)}
    /\ argCols = <<>>
    /\ NoCall
    /\ AgentOff
    /\ CallsOff
    /\ dash = NoDash

CallExtract ==
    /\ called = ""
    /\ called' = "extract_columns_from_query"
    /\ retList' = extract_columns_from_query(argText)
    /\ UNCHANGED <<argText, argCols, retBool, retText, retText2>>
    /\ UNCHANGED <<storeVars, agentVars, callVars, dash>>

SpecColumns == InitColumns /\ [][CallExtract]_vars

(***************************************************************************)
(* Specification SpecConn: concurrent query_data calls of two sessions,    *)
(* statement by statement, on a store that holds uploaded datasets.        *)
(***************************************************************************)

HarnessOff ==
    /\ argText = <<>>
    /\ argCols = <<>>
    /\ NoCall

InitConn ==
    /\ HarnessOff
    /\ datasets \in (Registries \cup { [n \in {"sales"} |-> Entry(TableCredit)],
        [n \in {"sales",
        "gw"} |-> IF n = "sales" THEN Entry(TableSales) ELSE Entry(TableNumbered)] })
    /\ current_dataset \in IF datasets = <<>> THEN {NoName} ELSE DOMAIN datasets
    /\ pc = "off"
    /\ client = "groq"
    /\ message = <<>>
    /\ dataset_name = NoName
    /\ info = NoName
    /\ agent_df = NoTable
    /\ query = <<>>
    /\ results = <<>>
    /\ error_msg = <<>>
    /\ llmLog = <<>>
    /\ execLog = <<>>
    /\ response = NoResponse
    /\ CallsOff
    /\ dash = NoDash

NextConn ==
    \E c \in Callers :
        \/ QdCall(c)
        \/ QdResolve(c)
        \/ QdConnect(c)
        \/ QdRegister(c)
        \/ QdQuote(c)
        \/ QdExecute(c)
        \/ QdClose(c)
        \/ QdReturn(c)
        \/ QdExcept(c)

SpecConn == InitConn /\ [][NextConn]_vars

(***************************************************************************)
(* Specification SpecStore: the operations of the Tabular Store, called    *)
(* one after the other from the empty store that DataManager.__init__      *)
(* leaves.                                                                 *)
(***************************************************************************)
InitStore ==
    /\ HarnessOff
    /\ AgentOff
    /\ CallsOff
    /\ dash = NoDash

NextStore ==
    \/ UploadDataset
    \/ SetCurrentDataset
    \/ GetDatasetInfo
    \/ QueryData

SpecStore == InitStore /\ [][NextStore]_vars

(***************************************************************************)
(* Specification SpecSession: the same operations with a run_agent         *)
(* invocation, whose statements interleave with the calls of the other     *)
(* sessions.                                                               *)
(***************************************************************************)
NextSession ==
    \/ NextStore
    \/ AgentCall
    \/ Next

SpecSession == InitStore /\ [][NextSession]_vars

(***************************************************************************)
(* Specification SpecShared: one run_agent invocation on a store that      *)
(* holds datasets, while other requests upload datasets and switch the     *)
(* current one between its statements.  The deployment is the one without  *)
(* the groq package, where every model call returns the mock text.         *)
(***************************************************************************)
InitShared ==
    /\ Init
    /\ client = "none"

NextShared ==
    \/ Next
    \/ UploadDataset
    \/ SetCurrentDataset

SpecShared == InitShared /\ [][NextShared]_vars

(***************************************************************************)
(* dashboard_agent.py: run_agent and the manual-selection loop of          *)
(* create_vertical_visualizations.                                         *)
(***************************************************************************)
\* df.select_dtypes(include=['number']).columns.tolist(); the uploaded tables
\* hold int64 and float64 columns only
numeric_cols(df) ==
    LET at == {k \in 1..Len(df.columns) :
                   df.dtypes[k] \in {<<"i", "n", "t", "6", "4">>,
                                     <<"f", "l", "o", "a", "t", "6", "4">>}}
    IN [k \in 1..Cardinality(at) |-> df.columns[Nth(at, k)]]

\* df.select_dtypes(include=['object', 'category']).columns.tolist()
categorical_cols(df) ==
    LET at == {k \in 1..Len(df.columns) :
                   df.dtypes[k] \in {<<"o", "b", "j", "e", "c", "t">>,
                                     <<"c", "a", "t", "e", "g", "o", "r", "y">>}}
    IN [k \in 1..Cardinality(at) |-> df.columns[Nth(at, k)]]

\* the branch that one iteration of the loop takes for the column at index d.i:
\* "missing" (the column is not in the DataFrame), "unsupported" (i += 1;
\* continue: no chart), or a chart made of the column alone ("single"), with
\* the next selected column ("pair") or with the next two ("triple")
Branch(d) ==
    LET sel == d.selected_columns
        i == d.i
        col == sel[i + 1]
        chart_type == IF i < Len(d.chart_types) THEN d.chart_types[i + 1] ELSE "auto"
        num == {numeric_cols(d.df)[k] : k \in DOMAIN numeric_cols(d.df)}
        cat == {categorical_cols(d.df)[k] : k \in DOMAIN categorical_cols(d.df)}
        nextIsNumeric == i + 1 < Len(sel) /\ sel[i + 2] \in num
    IN  IF col \notin {d.df.columns[k] : k \in DOMAIN d.df.columns} THEN "missing"
        ELSE IF chart_type = "scatter"
             THEN IF i + 1 < Len(sel) /\ sel[i + 2] \in num /\ col \in num
                  THEN "pair" ELSE "single"
        ELSE IF chart_type = "line" /\ col \in num
             THEN IF nextIsNumeric THEN "pair" ELSE "single"
        ELSE IF chart_type = "area" /\ col \in num
             THEN IF nextIsNumeric THEN "pair" ELSE "single"
        ELSE IF chart_type = "pie" /\ col \in cat THEN "single"
        ELSE IF chart_type = "heatmap" THEN "single"
        ELSE IF chart_type = "violin" /\ col \in num THEN "single"
        ELSE IF chart_type = "density_contour" /\ col \in num
             THEN IF nextIsNumeric THEN "pair" ELSE "single"
        ELSE IF chart_type = "bubble" /\ col \in num
             THEN IF i + 2 < Len(sel)
                  THEN IF sel[i + 2] \in num /\ sel[i + 3] \in num
                       THEN "triple" ELSE "pair"
                  ELSE "single"
        ELSE IF chart_type = "treemap" /\ col \in cat
             THEN IF nextIsNumeric THEN "pair" ELSE "single"
        ELSE IF chart_type = "histogram" /\ col \in num THEN "single"
        ELSE IF chart_type = "bar" /\ col \in cat THEN "single"
        ELSE IF chart_type = "box" /\ col \in num THEN "single"
        ELSE IF col \in num \/ col \in cat THEN "single"
        ELSE "unsupported"

\* the selected columns after the column at d.i that the chart of this
\* iteration is made of (col2, col3 passed to create_beautiful_chart)
Partners(d) ==
    CASE Branch(d) = "pair" -> 1
      [] Branch(d) = "triple" -> 2
      [] OTHER -> 0

\* mutant: no branch skips the columns it used
Skip_None(d) == 0

\* the i += 1 and i += 2 inside the branches, before the i += 1 that ends
\* every iteration
Skip(d) ==
    CASE Branch(d) = "pair" -> 1
      [] Branch(d) = "triple" -> 2
      [] OTHER -> 0

\* lines 22-29 of run_agent, and lines 730-739: the page without a dataset,
\* the KeyError of data_manager.datasets[dataset_name] caught at line 54,
\* or the DataFrame and the choice between the loop and the automatic charts
DashStart ==
    /\ dash.pc = "start"
    /\ LET name == get_dataset_info(dash.dataset_name) IN
       IF name = NoName
       THEN dash' = [dash EXCEPT !.pc = "done", !.content = "upload_first"]
       ELSE IF dash.dataset_name \notin DOMAIN datasets
       THEN dash' = [dash EXCEPT !.pc = "done", !.dataset_info = name, !.content = "error"]
       ELSE dash' = [dash EXCEPT
                !.pc = IF dash.selected_columns # <<>> /\ dash.chart_types # <<>>
                       THEN "loop" ELSE "auto",
                !.dataset_info = name,
                !.df = datasets[dash.dataset_name].dataframe]
    /\ UNCHANGED <<fnVars, storeVars, agentVars, callVars>>

\* lines 740-895: one iteration of the while loop.  A branch that made a
\* figure appends one block whether create_beautiful_chart and plotly_to_image
\* succeeded (line 887) or returned None (lines 889, 891: the block of
\* create_empty_chart); a missing column appends the block of line 893
LoopStep ==
    /\ dash.pc = "loop"
    /\ dash.i < Len(dash.selected_columns)
    /\   LET block == [block |-> IF Branch(dash) = "missing" THEN "empty" ELSE "chart",
                       col |-> dash.selected_columns[dash.i + 1],
                       at |-> dash.i]
         IN dash' = [dash EXCEPT
                !.i = @ + Skip(dash) + 1,
                !.charts = IF Branch(dash) = "unsupported" THEN @ ELSE Append(@, block),
                !.uses = Append(@, [at |-> dash.i, partners |-> Partners(dash)]),
                !.pc = IF dash.i + Skip(dash) + 1 < Len(dash.selected_columns)
                       THEN "loop" ELSE "render"]
    /\ UNCHANGED <<fnVars, storeVars, agentVars, callVars>>

\* lines 897-1081: the automatic charts, each appended when its figure and its
\* image were made; n of the candidate charts were
DashAuto ==
    /\ dash.pc = "auto"
    /\ LET nNum == Len(numeric_cols(dash.df))
           nCat == Len(categorical_cols(dash.df))
           candidates == (IF nNum >= 1 THEN 2 ELSE 0) + (IF nNum >= 2 THEN 5 ELSE 0)
                         + (IF nNum >= 3 THEN 1 ELSE 0) + (IF nCat >= 1 THEN 1 ELSE 0)
                         + (IF nCat >= 2 THEN 1 ELSE 0)
       IN \E n \in {0, candidates} :
            dash' = [dash EXCEPT
                !.pc = "render",
                !.charts = [k \in 1..n |-> [block |-> "chart", col |-> <<>>, at |-> 0]]]
    /\ UNCHANGED <<fnVars, storeVars, agentVars, callVars>>

\* lines 1083-1100 and 31-52: the block that stands for an empty list of
\* charts, the page and its metadata
DashReturn ==
    /\ dash.pc = "render"
    /\ dash' = [dash EXCEPT
           !.pc = "done",
           !.charts = IF @ = <<>> THEN <<[block |-> "none", col |-> <<>>, at |-> 0]>> ELSE @,
           !.content = "dashboard",
           !.dataset = dash.dataset_info]
    /\ UNCHANGED <<fnVars, storeVars, agentVars, callVars>>

(***************************************************************************)
(* Specification SpecDash: one call of dashboard_agent.run_agent on a      *)
(* store that holds no dataset or two.                                     *)
(***************************************************************************)
MaxSelected == 3     \* selected columns of a dashboard request
MaxChartTypes == 2   \* chart types of a dashboard request

InitDash ==
    LET ColPaid == <<"P", "a", "i", "d">>
        TableOrders == [columns |-> <<ColRegion, ColProfit, ColPaid>>,
                        dtypes |-> <<<<"o", "b", "j", "e", "c", "t">>,
                                     <<"i", "n", "t", "6", "4">>,
                                     <<"b", "o", "o", "l">>>>,
                        rows |-> 2, labels |-> "str"]
    IN
    /\ HarnessOff
    /\ pc = "off"
    /\ client = "groq"
    /\ message = <<>>
    /\ dataset_name = NoName
    /\ info = NoName
    /\ agent_df = NoTable
    /\ query = <<>>
    /\ results = <<>>
    /\ error_msg = <<>>
    /\ llmLog = <<>>
    /\ execLog = <<>>
    /\ response = NoResponse
    /\ CallsOff
    /\ datasets \in {<<>>,
                     [n \in {"sales", "gw"} |->
                          IF n = "sales" THEN Entry(TableOrders) ELSE Entry(TableGw)]}
    /\ current_dataset \in IF datasets = <<>> THEN {NoName} ELSE DOMAIN datasets
    /\ \E name \in {NoName, "sales"} :
       \E sel \in SeqsUpTo({ColRegion, ColProfit, ColPaid, ColLimit}, MaxSelected) :
       \E types \in SeqsUpTo({"scatter", "line", "bubble", "treemap"}, MaxChartTypes) :
           dash = [NoDash EXCEPT !.pc = "start", !.dataset_name = name,
                                 !.selected_columns = sel, !.chart_types = types]

NextDash == DashStart \/ LoopStep \/ DashAuto \/ DashReturn

SpecDash == InitDash /\ [][NextDash]_vars /\ WF_vars(NextDash)

(***************************************************************************)
(* Properties of run_agent (Spec).                                         *)
(***************************************************************************)
\* C1: every query handed to query_data, the draft and the repaired one alike,
\* has passed is_safe_sql; a query that is_safe_sql rejects is never executed.
C1_ExecutedQueriesAreSafe ==
    \A i \in 1..Len(execLog) : is_safe_sql(execLog[i].query)

CallsOf(phase) == {i \in 1..Len(llmLog) : llmLog[i].phase = phase}

\* C2: at most one DRAFT and one REPAIR call of the model, at most two
\* executions, nothing but the response after the second execution, and no
\* second call of the model for a phase whose call failed.
C2_AtMostOneRepair ==
    /\ Cardinality(CallsOf("draft")) <= 1
    /\ Cardinality(CallsOf("repair")) <= 1
    /\ Len(execLog) <= 2
    /\ Len(execLog) = 2 => pc \in {"summarize", "done"}
    /\ \A i \in 1..Len(llmLog), j \in 1..Len(llmLog) :
          (i < j /\ llmLog[i].kind # "answer") => llmLog[j].phase # llmLog[i].phase

\* C2 witness: the repair call failed, both executions failed, and the error
\* of the second one was returned.
C2_Witness ==
    /\ pc = "done"
    /\ Cardinality(CallsOf("draft")) = 1
    /\ Cardinality(CallsOf("repair")) = 1
    /\ llmLog[2].kind = "raise"
    /\ Len(execLog) = 2
    /\ ~ execLog[2].ok
    /\ "error" \in response.keys

\* a step failed and nothing recovered from it: no dataset, an exception, a
\* last execution that failed, or a failed call of the model for the answer
UnrecoveredFailure ==
    \/ info = NoName
    \/ response.content.kind = "Error: {e}"
    \/ (execLog # <<>> /\ ~ execLog[Len(execLog)].ok)
    \/ \E i \in CallsOf("summary") : llmLog[i].kind \in {"raise", "empty"}

\* C3: run_agent returns a response whose content is a string and whose
\* metadata carries an error field whenever a step failed without recovery.
C3_ResponseCarriesError ==
    pc = "done" =>
        /\ response.content.isStr
        /\ UnrecoveredFailure => "error" \in response.keys

\* C4: when the model call of DRAFT or REPAIR fails, the query executed next is
\* the fallback query, never the failure text of the model service.
C4_FailedCallExecutesFallback ==
    \A i \in 1..Len(execLog) :
        execLog[i].genKind \in {"raise", "empty"} => execLog[i].query = Fallback

(***************************************************************************)
(* Properties of is_safe_sql (SpecSafe).                                   *)
(***************************************************************************)
\* the deny-listed tokens as the specification lists them
DenyTokens == {
    <<"C", "R", "E", "A", "T", "E">>,
    <<"A", "L", "T", "E", "R">>,
    <<"D", "R", "O", "P">>,
    <<"T", "R", "U", "N", "C", "A", "T", "E">>,
    <<"I", "N", "S", "E", "R", "T">>,
    <<"U", "P", "D", "A", "T", "E">>,
    <<"D", "E", "L", "E", "T", "E">>,
    <<"E", "X", "E", "C">>,
    <<"E", "X", "E", "C", "U", "T", "E">>,
    <<";", "-", "-">>,
    <<"/", "*">>,
    <<"*", "/">> }

\* tok occurs in q, each letter in either case
ContainsAnyCase(q, tok) ==
    \E i \in 0..(Len(q) - Len(tok)) :
        \A k \in 1..Len(tok) : q[i + k] = tok[k] \/ q[i + k] = LowerChar(tok[k])

\* C6: is_safe_sql(q) is false exactly when q contains a deny-listed token as a
\* substring, in any letter case; it is true for every other q.
C6_SafeIffNoDenyToken ==
    called = "is_safe_sql" =>
        (retBool = FALSE <=> \E tok \in DenyTokens : ContainsAnyCase(argText, tok))

\* C6 witness: the identifier INSERT_DATE in a SELECT is rejected.
C6_Witness ==
    /\ called = "is_safe_sql"
    /\ retBool = FALSE
    /\ argText = <<"S", "E", "L", "E", "C", "T", " ", "1", " ",
                   "I", "N", "S", "E", "R", "T", "_", "D", "A", "T", "E">>

\* s begins with the keyword SELECT, each letter in either case
BeginsWithSelect(s) ==
    /\ Len(s) >= Len(SelectKw)
    /\ \A k \in 1..Len(SelectKw) : s[k] = SelectKw[k] \/ s[k] = LowerChar(SelectKw[k])

\* a separator ; that joins two SELECT statements
IsMultiStatement(q) ==
    \E i \in 1..Len(q) :
        /\ q[i] = ";"
        /\ BeginsWithSelect(LStrip(SubSeq(q, 1, i - 1)))
        /\ BeginsWithSelect(LStrip(SubSeq(q, i + 1, Len(q))))

\* C7: is_safe_sql returns false for every query in which a statement separator
\* joins two statements.
C7_MultiStatementRejected ==
    (called = "is_safe_sql" /\ IsMultiStatement(argText)) => retBool = FALSE

(***************************************************************************)
(* Properties of generate_sql_with_llm (SpecDraft).                        *)
(***************************************************************************)
\* out is raw without a leading run of whitespace and fence markers (with the
\* sql tag) and without a trailing run of whitespace and fence markers; out has
\* no surrounding whitespace, and ends with a fence marker only where a fence
\* marker was already removed behind it
IsFenceTrimOf(out, raw) ==
    \E i \in 1..(Len(raw) + 1), j \in 0..Len(raw) :
        /\ out = SubSeq(raw, i, j)
        /\ \A k \in 1..(i - 1) :
              raw[k] \in Whitespace \cup {Backtick, "s", "q", "l", "S", "Q", "L"}
        /\ \A k \in (j + 1)..Len(raw) : raw[k] \in Whitespace \cup {Backtick}
        /\ out # <<>> => (out[1] \notin Whitespace /\ out[Len(out)] \notin Whitespace)
        /\ EndsWith(out, Fence) => Contains(SubSeq(raw, j + 1, Len(raw)), Fence)

QuotesBefore(s, p) == Cardinality({k \in 1..(p - 1) : s[k] = DQ})

\* a bare occurrence of col at p: the name in any letter case, word-bounded,
\* no delimiter on either side of it, and outside every delimited region
BareOccurrenceAt(s, col, p) ==
    /\ NameAt(s, col, p)
    /\ p > 1 => (~ IsWordChar(s[p - 1]) /\ s[p - 1] # DQ)
    /\ p + Len(col) <= Len(s) =>
          (~ IsWordChar(s[p + Len(col)]) /\ s[p + Len(col)] # DQ)
    /\ QuotesBefore(s, p) % 2 = 0

ColumnsOf(cols) == {cols[i] : i \in 1..Len(cols)}

\* C8: the output of the Identifier Quoter contains no bare occurrence of any
\* column name, in any letter case, also when the same column appears
\* delimited elsewhere in the query.
C8_NoBareColumnLeft ==
    called = "_quote_column_names_smart" =>
        \A col \in ColumnsOf(argCols) :
            \A p \in 1..Len(retText) : ~ BareOccurrenceAt(retText, col, p)

\* name occurs at p of s between two delimiters
DelimitedAt(s, name, p) ==
    /\ NameAt(s, name, p)
    /\ p > 1 /\ s[p - 1] = DQ
    /\ p + Len(name) <= Len(s) /\ s[p + Len(name)] = DQ

\* name occurs at p of s as a word, with no delimiter on either side
BareAt(s, name, p) ==
    /\ NameAt(s, name, p)
    /\ p > 1 => (~ IsWordChar(s[p - 1]) /\ s[p - 1] # DQ)
    /\ p + Len(name) <= Len(s) =>
          (~ IsWordChar(s[p + Len(name)]) /\ s[p + Len(name)] # DQ)

\* the references to name in s: its bare and its delimited occurrences
References(s, name) ==
    {p \in 1..Len(s) : BareAt(s, name, p) \/ DelimitedAt(s, name, p)}

\* short occurs inside long, in any letter case, and is shorter
IsInside(short, long) ==
    /\ Len(short) < Len(long)
    /\ \E p \in 1..Len(long) : NameAt(long, short, p)

\* C9: when one column name is a substring of a longer column name, quoting a
\* query that references the longer name, bare or delimited, never inserts
\* delimiters inside it: each reference is in the output once-delimited and
\* intact.
C9_LongerNameIntact ==
    called = "_quote_column_names_smart" =>
        \A short \in ColumnsOf(argCols), long \in ColumnsOf(argCols) :
            IsInside(short, long) =>
                Cardinality({p \in 1..Len(retText) : DelimitedAt(retText, long, p)})
                    = Cardinality(References(ReplaceBackticks(argText), long))

ReportsColumnNotFound(e) ==
    /\ Contains(Lower(e), ColumnWord)
    /\ Contains(Lower(e), NotFoundWords)
    /\ NextCharPos(e, DQ, 1) > 0

NamedIdentifier(e) ==
    SubSeq(e, NextCharPos(e, DQ, 1) + 1,
              NextCharPos(e, DQ, NextCharPos(e, DQ, 1) + 1) - 1)

SimilarTo(ident, cols) == SelectSeq(cols, LAMBDA c : Contains(Lower(c), Lower(ident)))

C11_EnhancedNamesOffender ==
    (called = "_enhance_error" /\ ReportsColumnNotFound(argText)) =>
        LET ident == NamedIdentifier(argText)
            similar == SimilarTo(ident, argCols)
        IN  retText = IF similar # <<>>
                      THEN MsgColumn \o ident \o MsgDidYouMean
                               \o Join(Take(similar, 3)) \o <<"?">>
                      ELSE MsgColumn \o ident \o MsgAvailable \o Join(Take(argCols, 5))

(***************************************************************************)
(* Properties of query_data (SpecConn).                                    *)
(***************************************************************************)
ColumnSet(df) == {df.columns[i] : i \in 1..Len(df.columns)}

\* a returned call whose query was handed to the engine, on a table the engine bound
RanOnEngine(c) ==
    /\ calls[c].pc = "returned"
    /\ calls[c].name \in DOMAIN datasets
    /\ calls[c].error # RegisterError

\* C12: the fallback query, executed through query_data on a non-empty dataset
\* of at most 20 rows whose column labels are texts, returns a Result Set that
\* is not an error and holds one row per row of the dataset, each row with
\* every column of the dataset.
C12_FallbackReturnsAllRows ==
    \A c \in Callers :
        (/\ RanOnEngine(c)
         /\ calls[c].q = Fallback
         /\ calls[c].df.labels = "str"
         /\ calls[c].df.rows \in 1..FallbackLimit)
        => /\ ~ IsErrorResult(calls[c].result)
           /\ Len(calls[c].result) = calls[c].df.rows
           /\ \A i \in 1..Len(calls[c].result) :
                 calls[c].result[i].keys = ColumnSet(calls[c].df)

\* C13: a call that has returned has left its connection closed, whether it
\* returned rows or an error, and every open connection belongs to a call that
\* is between its connect and its close.
C13_ConnectionClosedOnReturn ==
    /\ \A c \in Callers :
          (calls[c].pc = "returned" /\ calls[c].conn # NoConn)
          => ~ conns[calls[c].conn].open
    /\ \A k \in 1..Len(conns) :
          conns[k].open
          => \E c \in Callers :
                /\ calls[c].conn = k
                /\ calls[c].pc \in {"register", "quote", "execute", "close", "except"}

C13_Witness ==
    \E c, d \in Callers :
        /\ calls[c].pc = "returned" /\ calls[d].pc = "returned"
        /\ calls[c].conn # NoConn /\ calls[d].conn # NoConn /\ c # d
        /\ calls[c].error \in EngineErrors
        /\ calls[d].error = <<>> /\ Len(calls[d].result) > 0
        /\ \A k \in 1..Len(conns) : ~ conns[k].open

\* C14: the call targets the dataset of the given name, or the current dataset
\* when no name is given; when that name is not in the registry it returns the
\* one-element Result Set "No dataset selected" and has no connection, and the
\* step that returns it changes neither the connections nor the store.
C14_Targets ==
    \A c \in Callers :
        calls[c].pc \notin {"idle", "resolve"}
        => /\ calls[c].name = IF calls[c].dn # NoName THEN calls[c].dn
                              ELSE current_dataset
           /\ IF calls[c].name \in DOMAIN datasets
              THEN calls[c].df = datasets[calls[c].name].dataframe
              ELSE /\ calls[c].pc = "returned"
                   /\ calls[c].result = <<ErrorRow(NoDatasetSelected)>>
                   /\ calls[c].conn = NoConn

C14_StepWithoutEffect ==
    \A c \in Callers :
        (calls[c].pc = "resolve" /\ calls'[c].pc = "returned")
        => (conns' = conns /\ datasets' = datasets /\ current_dataset' = current_dataset)

C14_ResolvesTarget == [] C14_Targets /\ [][C14_StepWithoutEffect]_vars

C14_Witness ==
    \E c, d \in Callers :
        /\ calls[c].pc = "returned"
        /\ calls[c].dn # NoName
        /\ calls[c].name \notin DOMAIN datasets
        /\ calls[c].result = <<ErrorRow(NoDatasetSelected)>>
        /\ calls[d].pc = "returned"
        /\ calls[d].dn = NoName
        /\ calls[d].name = current_dataset
        /\ Len(conns) = 1

\* C15: when the engine raised, the call returns exactly one element, which has
\* the key "error" alone with the enhanced message of the engine's text;
\* otherwise a resolved call returns the data rows of the result and nothing else.
C15_FailureIsOneErrorElement ==
    \A c \in Callers :
        (calls[c].pc = "returned" /\ calls[c].name \in DOMAIN datasets)
        => IF calls[c].error # <<>>
           THEN /\ Len(calls[c].result) = 1
                /\ calls[c].result[1].keys = {ErrorKey}
                /\ calls[c].result[1].error =
                      enhance_error(calls[c].error, calls[c].df.columns)
           ELSE /\ Len(calls[c].result) = calls[c].result_df.rows
                /\ \A i \in 1..Len(calls[c].result) :
                      calls[c].result[i] = DataRow(calls[c].result_df.cols)

C15_Witness ==
    \E c \in Callers :
        /\ calls[c].pc = "returned"
        /\ calls[c].error = ParserError(<<"x">>)
        /\ calls[c].result = <<ErrorRow(MsgSyntax)>>

\* C20: a call that has connected owns its connection and shares it with no
\* other call; from the binding to the execution the connection is open and
\* the table bound on it as current_data is the table this call resolved.
C20_ConnectionPerCall ==
    \A c \in Callers :
        calls[c].conn # NoConn
        => /\ conns[calls[c].conn].owner = c
           /\ \A d \in Callers \ {c} : calls[d].conn # calls[c].conn
           /\ calls[c].pc \in {"register", "quote", "execute"}
              => conns[calls[c].conn].open
           /\ calls[c].pc \in {"quote", "execute"}
              => conns[calls[c].conn].current_data = calls[c].df

C20_Witness ==
    \E c, d \in Callers :
        /\ c # d
        /\ calls[c].pc = "execute" /\ calls[d].pc = "execute"
        /\ calls[c].df # calls[d].df
        /\ conns[calls[c].conn].current_data = calls[c].df
        /\ conns[calls[d].conn].current_data = calls[d].df

(***************************************************************************)
(* Properties of the responses of run_agent (Spec).                        *)
(***************************************************************************)
\* C16: a response that follows an execution has query_used, which is the
\* query given to the last execution; and when the second execution failed too,
\* metadata.error and the content both carry the error message of that
\* execution's Result Set.
C16_ResponseNamesLastQuery ==
    (pc = "done" /\ Len(execLog) >= 1)
    => /\ "query_used" \in response.keys
       /\ response.query_used = execLog[Len(execLog)].query
       /\ (Len(execLog) = 2 /\ ~ execLog[2].ok)
          => /\ "error" \in response.keys
             /\ response.error = results[1].error
             /\ response.content.error = results[1].error

\* C17: every response has a string content and, in its metadata, query_used,
\* dataset and columns_analyzed with exactly one of results_count and error;
\* results_count is there when the last execution succeeded and is the number
\* of rows of the last Result Set.
C17_ResponseShape ==
    pc = "done"
    => /\ response.content.isStr
       /\ {"query_used", "dataset", "columns_analyzed"} \subseteq response.keys
       /\ ("results_count" \in response.keys) # ("error" \in response.keys)
       /\ "results_count" \in response.keys
          <=> (Len(execLog) >= 1 /\ execLog[Len(execLog)].ok)
       /\ "results_count" \in response.keys => response.results_count = Len(results)

(***************************************************************************)
(* Properties of the Tabular Store (SpecStore, SpecSession).               *)
(***************************************************************************)
\* C18: after a successful upload under a name, the entry of that name is made
\* of the uploaded table alone, the other entries are the ones the upload
\* found, and no call leaves the registry without an entry it found.
C18_UploadReplacesEntry ==
    /\ DOMAIN lastOp.before \subseteq DOMAIN datasets
    /\ (lastOp.op = "upload_dataset" /\ lastOp.ok)
       => /\ DOMAIN datasets = DOMAIN lastOp.before \cup {lastOp.name}
          /\ datasets[lastOp.name] =
                [dataframe |-> lastOp.arg.df,
                 row_count |-> lastOp.arg.df.rows,
                 column_count |-> Len(lastOp.arg.df.columns),
                 columns |-> lastOp.arg.df.columns,
                 dtypes |-> lastOp.arg.df.dtypes]
          /\ \A m \in DOMAIN lastOp.before \ {lastOp.name} :
                datasets[m] = lastOp.before[m]

C18_Witness ==
    /\ lastOp.op = "upload_dataset"
    /\ lastOp.ok
    /\ lastOp.name \in DOMAIN lastOp.before
    /\ lastOp.before[lastOp.name].row_count # lastOp.arg.df.rows
    /\ lastOp.before[lastOp.name].columns # lastOp.arg.df.columns
    /\ datasets[lastOp.name].dataframe = lastOp.arg.df

\* C19: a step of query_data, of get_dataset_info or of run_agent (its start,
\* DRAFT, the safety net, both executions, REPAIR, the summary) leaves the
\* registry and the current-dataset pointer as they are.
ReadOnlyStep ==
    \/ pc' # pc
    \/ /\ lastOp' # lastOp
       /\ lastOp'.op \in {"query_data", "get_dataset_info", "run_agent"}

C19_QueriesAreReadOnly ==
    [][ReadOnlyStep => (datasets' = datasets /\ current_dataset' = current_dataset)]_vars

C19_Witness ==
    /\ pc = "done"
    /\ Len(execLog) = 2
    /\ ~ execLog[1].ok
    /\ lastOp.op = "run_agent"
    /\ datasets # <<>>
    /\ datasets = lastOp.before
    /\ current_dataset = lastOp.beforeCurrent

(***************************************************************************)
(* Properties of the Generation/Repair Loop (Spec, SpecSession).           *)
(***************************************************************************)
\* C21: every query handed to query_data, on the first attempt and on the
\* repair attempt, begins with SELECT in any letter case or is the fallback
\* query; a model output that is not a SELECT statement is never executed.
C21_ExecutedQueriesAreSelect ==
    \A k \in 1..Len(execLog) :
        BeginsWithSelect(execLog[k].query) \/ execLog[k].query = Fallback

\* a Result Set that is error-tagged: its first element has the reserved key
ErrorTagged(rs) == rs # <<>> /\ ErrorKey \in rs[1].keys

C23_SuccessIsNotFailure ==
    /\ (Len(execLog) >= 1 /\ execLog[1].ok)
       => (pc \in {"summarize", "done"} /\ CallsOf("repair") = {} /\ Len(execLog) = 1)
    /\ (pc = "done" /\ Len(execLog) = 2 /\ execLog[2].ok)
       => response.content.kind # FailureResponse(query, results, info).content.kind

\* C24: within one invocation, each execution queries the dataset whose
\* schema was read for the model (the same name and the same table), and the
\* response names that dataset.
C24_OneDatasetPerInvocation ==
    /\ \A k \in 1..Len(execLog) :
          /\ execLog[k].dataset = info
          /\ execLog[k].table = agent_df
    /\ (pc = "done" /\ "dataset" \in response.keys)
       => /\ response.dataset = info
          /\ \A k \in 1..Len(execLog) : execLog[k].dataset = response.dataset

\* C25: when the name given, or the current dataset when none is given, is not
\* in the registry, run_agent returns the response "Please upload a dataset
\* first." with metadata.error, and has called neither the model nor
\* query_data.
C25_NoDatasetNoCalls ==
    (pc # "start" /\ ResolveName(dataset_name) \notin DOMAIN datasets)
    => /\ pc = "done"
       /\ response.content.kind = "Please upload a dataset first."
       /\ response.content.isStr
       /\ "error" \in response.keys
       /\ response.error # <<>>
       /\ llmLog = <<>>
       /\ execLog = <<>>

\* C25 witness: an unknown name is given while a current dataset exists.
C25_Witness ==
    /\ pc = "done"
    /\ dataset_name = "gw"
    /\ DOMAIN datasets = {"sales"}
    /\ current_dataset = "sales"
    /\ response = NoDatasetResponse
    /\ llmLog = <<>>
    /\ execLog = <<>>

(***************************************************************************)
(* Properties of extract_columns_from_query (SpecColumns).                 *)
(***************************************************************************)
\* the elements of a list
Elements(list) == {list[k] : k \in 1..Len(list)}

\* SELECT items made of a filtered keyword applied to a delimited identifier
KeywordItems == {
    [text |-> <<"D", "I", "S", "T", "I", "N", "C", "T", " ", DQ, "C", "a", "t", "e", "g", "o", "r", "y", DQ>>, ident |-> <<"C", "a", "t", "e", "g", "o", "r", "y">>],
    [text |-> <<"A", "V", "G", "(", DQ, "V", "a", "l", "u", "e", DQ, ")">>, ident |-> <<"V", "a", "l", "u", "e">>],
    [text |-> <<"C", "O", "U", "N", "T", "(", Backtick, "U", "n", "i", "t", "s", Backtick, ")">>, ident |-> <<"U", "n", "i", "t", "s">>] }

\* C26: columns_analyzed holds none of the keywords SELECT, DISTINCT, COUNT,
\* AVG, SUM, MAX, MIN; it is ["*"] for a query that selects the star; and for
\* a query whose SELECT item is a filtered keyword applied to a delimited
\* identifier, with or without an AS alias, it holds that identifier.
C26_ColumnsAnalyzed ==
    called = "extract_columns_from_query" =>
        /\ Elements(retList) \cap
               {SelectKw, <<"D", "I", "S", "T", "I", "N", "C", "T">>,
                <<"C", "O", "U", "N", "T">>, <<"A", "V", "G">>,
                <<"S", "U", "M">>, <<"M", "A", "X">>,
                <<"M", "I", "N">>} = {}
        /\ (BeginsWithSelect(argText)
               /\ StartsWith(LStrip(SubSeq(argText, 7, Len(argText))), <<"*">>))
           => retList = << <<"*">> >>
        /\ \A item \in KeywordItems :
              \A alias \in {<<>>, <<" ", "A", "S", " ", "a", "v", "g", "_", "v", "a", "l", "u", "e">>},
                 tail \in {<<>>, <<" ", "F", "R", "O", "M", " ", "c", "u", "r", "r", "e", "n", "t", "_", "d", "a", "t", "a">>} :
                 argText = <<"S", "E", "L", "E", "C", "T", " ">> \o item.text \o alias \o tail
                 => item.ident \in Elements(retList)

C28_PointerNamesAnEntry ==
    /\ current_dataset \in DOMAIN datasets \cup {NoName}
    /\ (lastOp.op = "upload_dataset" /\ lastOp.ok) => current_dataset = lastOp.name
    /\ lastOp.op = "set_current_dataset"
       => /\ lastOp.ret = (lastOp.name \in DOMAIN lastOp.before)
          /\ datasets = lastOp.before
          /\ current_dataset = IF lastOp.name \in DOMAIN lastOp.before
                               THEN lastOp.name
                               ELSE lastOp.beforeCurrent

\* C28 witness: set_current_dataset of a name that was never uploaded, on a
\* store whose pointer names the one dataset it holds.
C28_Witness ==
    /\ lastOp.op = "set_current_dataset"
    /\ lastOp.ret = FALSE
    /\ lastOp.name \notin DOMAIN datasets
    /\ datasets # <<>>
    /\ current_dataset \in DOMAIN datasets


(***************************************************************************)
(* Properties of dashboard_agent.run_agent (SpecDash).                     *)
(***************************************************************************)
\* C29: run_agent of the dashboard called with the dataset name omitted while
\* a current dataset exists builds the dashboard for the current dataset, and
\* it returns the page "Please upload a dataset first" only when no dataset
\* resolves.
C29_DashboardForCurrentDataset ==
    dash.pc = "done" =>
        /\ (dash.dataset_name = NoName /\ current_dataset \in DOMAIN datasets
                => dash.content = "dashboard" /\ dash.dataset = current_dataset)
        /\ (dash.content = "upload_first" => get_dataset_info(dash.dataset_name) = NoName)

\* C30: the manual-selection loop terminates for all lists of selected
\* columns and of chart types: every iteration increases the index and
\* appends at most one chart block, no selected column is taken by two
\* iterations (as the column of a chart or as a partner of the chart started
\* before it), and the loop is left.
C30_IterationAdvances ==
    dash.pc = "loop" =>
        /\ dash'.i > dash.i
        /\ Len(dash'.charts) <= Len(dash.charts) + 1
        /\ Len(dash'.uses) = Len(dash.uses) + 1

C30_ConsumedAtMostOnce ==
    \A p \in 0..(Len(dash.selected_columns) - 1) :
        Cardinality({k \in DOMAIN dash.uses :
                        dash.uses[k].at <= p /\ p <= dash.uses[k].at + dash.uses[k].partners}) <= 1

C30_ManualLoopTerminates ==
    /\ [][C30_IterationAdvances]_vars
    /\ []C30_ConsumedAtMostOnce
    /\ (dash.pc = "loop" ~> dash.pc = "done")

\* a finished loop over more columns than chart types, in which a chart took
\* partner columns, one column was missing and one was of an unsupported type
C30_Witness ==
    /\ dash.pc = "done"
    /\ dash.content = "dashboard"
    /\ Len(dash.chart_types) < Len(dash.selected_columns)
    /\ \E k \in DOMAIN dash.uses : dash.uses[k].partners >= 1
    /\ Len(dash.uses) >= 2
    /\ Len(dash.charts) < Len(dash.uses)

====
